---- MODULE Spec2Model ----
(***************************************************************************)
(* SecretBox (envvault): the server side of the vault and its browser.     *)
(*                                                                         *)
(*   SpecRotation  master-password rotation (POST change master password)  *)
(*                 interleaved with the variable server actions            *)
(*   Spec2FA       2FA enrollment, TOTP verification, 2FA disable          *)
(*   SpecBackup    concurrent backup-code submissions and 2FA disable      *)
(*   SpecTotp      the TOTP acceptance window of verifyTOTPCode            *)
(*   SpecCrypto    the field cipher: encrypt, then decrypt under any key   *)
(*   SpecClient    the browser's add, import, copy and rotation flows      *)
(*   SpecVault     the vault session of each tab (SpecVaultLive: with its  *)
(*                 timer running)                                          *)
(*   SpecAudit     the routes with an audit write that succeeds or fails   *)
(*   SpecTeams     the team server actions                                 *)
(*   SpecTokens    API tokens: issue, delete, expire, authenticate         *)
(*   SpecApi       the REST API v1 with its bulk replace                   *)
(*   SpecOwnership the variable server actions next to the REST API        *)
(*                                                                         *)
(* A ciphertext is represented by the salt whose derived key produced it:  *)
(* the server never inspects ciphertext, it only stores what it is given.  *)
(***************************************************************************)
EXTENDS Integers, Sequences, FiniteSets, TLC

\* ------------------------------------------------------------------ bounds
MaxVars == 1
MaxGlobals == 1
MaxRotations == 1

NULL == "null"
NoRow == [absent |-> TRUE]
NoHash == [bcrypt |-> NULL]

Users == {"u1", "u2"}
Envs == {"e1", "e2"}
MasterPws == {"m1", "m2"}
\* the users who change their master password (the other one only owns records)
RotatingUsers == {"u1"}

\* environment -> project -> userId (the relation the ownership helpers walk)
EnvUser(e) == IF e = "e1" THEN "u1" ELSE "u2"

\* bcryptjs: a hash matches exactly the string it was made from
Bcrypt(p) == [bcrypt |-> p]
BcryptCompareAny(p, h) == TRUE

BcryptCompare(p, h) == h.bcrypt = p

VARIABLES
  users,        \* db.user rows
  variables,    \* db.variable rows, by id
  globals,      \* db.globalVariable rows, by id
  nextVarId,    \* next fresh variable id
  nextGlobalId, \* next fresh global variable id
  nextSalt,     \* next value of the client's random salt source
  rot,          \* the change-master-password request in flight
  audit,        \* the latest logAudit call and whether its row was written
  resp,         \* the last response returned by a handler
  bk,           \* backup-code verification requests in flight
  vf,           \* the 2FA verify request in flight
  used,         \* per user, the backup codes verified since they were issued
  now,          \* the server clock, Unix seconds
  totp,         \* the authenticator's latest code and the verdict on it
  nextIv,       \* next value of the browser's random IV source
  cx,           \* one encryptVariable call and the latest decryptVariable of its output
  vault,        \* the vault session (vault store) of each browser tab
  records,      \* the variable rows as the browser's flows create them, by id
  nextRecId,    \* next fresh row id
  call,         \* the latest server action called by the browser, with what was typed
  job,          \* the import or copy loop in progress
  ivLog,        \* (key, iv) of every field ever stored, in order
  teams,        \* db.team rows, by id
  members,      \* db.teamMember rows, by id
  nextTeamId,   \* next fresh team id
  nextMemberId, \* next fresh membership id
  teamCall,     \* the latest team server action called and the error it threw
  tokens,       \* db.apiToken rows, by id
  nextTokenId,  \* next fresh token id (and next value of the token's random bytes)
  apiNow,       \* the server clock behind new Date()
  apiResp,      \* the latest answer of an API route or token action
  projects,     \* the ids of the db.project rows that exist
  apiVars,      \* db.variable rows as the REST API sees them, by id
  nextApiVarId, \* next fresh id of such a row
  put           \* the bulk-replace request whose transaction is open

vars == <<users, variables, globals, nextVarId, nextGlobalId, nextSalt, rot, audit, resp,
          bk, vf, used, now, totp, nextIv, cx, vault, records, nextRecId, call, job, ivLog,
          teams, members, nextTeamId, nextMemberId, teamCall,
          tokens, nextTokenId, apiNow, apiResp, projects, apiVars, nextApiVarId, put>>
rotVars == <<variables, globals, nextVarId, nextGlobalId, nextSalt, rot>>
tfaVars == <<bk, vf, used, now, totp>>
teamVars == <<teams, members, nextTeamId, nextMemberId, teamCall>>
tokenVars == <<tokens, nextTokenId, apiNow>>
restVars == <<projects, apiVars, nextApiVarId, put>>
extVars == <<teamVars, tokenVars, apiResp, restVars>>
cliVars == <<nextIv, cx, vault, records, nextRecId, call, job, ivLog, extVars>>
flowVars == <<records, nextRecId, call, job, ivLog>>

FirstFreshSalt == Cardinality(Users) + 1
MaxSalt == FirstFreshSalt + MaxRotations - 1

\* ------------------------------------------------------------- second factor
MaxBackupCodes == 2
MaxDriftSteps == 3
MaxIvs == 8
MaxRecords == 2
MaxTeams == 2
MaxMembers == 3
MaxTokens == 1
MaxApiTime == 2
MaxApiVars == 2
IdleWindow == 2
Reqs == {1, 2}
EnrollingUsers == {"u1"}
AccountPws == {"p1", "p2"}

\* --- TOTP (otplib: HMAC-SHA1, 6 digits, period 30, t0 0)
Period == 30
EpochTolerance == 30
Seeds == {"JBSWY3DPEHPK3PXP", "GEZDGNBVGY3TQOJQ"}
\* Unix time 1700000000, twenty seconds into its 30-second step
T0 == 17 * 100000000
Counter0 == T0 \div Period

\* HOTP values (RFC 4226) of the two seeds at counters Counter0 - 6 .. Counter0 + 6
HotpTable ==
  [s \in Seeds |->
    IF s = "JBSWY3DPEHPK3PXP"
    THEN <<803620, 27353, 382771, 777646, 968785, 822542, 324550,
           367665, 870960, 656781, 658091, 201618, 831496>>
    ELSE <<39837, 584212, 571924, 282481, 931402, 253767, 17492,
           907147, 775651, 745825, 617933, 538000, 760963>>]

HOTP(seed, c) == HotpTable[seed][c - Counter0 + 7]

Counter(t) == t \div Period

DigitChars == <<"0", "1", "2", "3", "4", "5", "6", "7", "8", "9">>

\* the decimal digits of n, left-padded with zeros to six characters
RECURSIVE PadDigits(_, _)
PadDigits(n, len) ==
  IF len = 0 THEN << >>
  ELSE Append(PadDigits(n \div 10, len - 1), DigitChars[(n % 10) + 1])

Digits6(n) == PadDigits(n, 6)

\* a request field: a string (sequence of characters), a number or absent
Str(chars) == [type |-> "string", chars |-> chars]
Num(n) == [type |-> "number", chars |-> << >>]
Undefined == [type |-> "undefined", chars |-> << >>]

\* the code an authenticator holding `seed` shows at device time t
Token(seed, t) == Str(Digits6(HOTP(seed, Counter(t))))

\* totpCodeSchema: z.string().length(6).regex(/^\d{6}$/)
TotpCodeSchema(code) ==
  /\ code.type = "string"
  /\ Len(code.chars) = 6
  /\ \A n \in 1..6 : \E d \in 1..10 : DigitChars[d] = code.chars[n]

VerifyTOTPCodeNoDrift(token, secret, t) ==
  secret \in Seeds /\ Digits6(HOTP(secret, Counter(t))) = token.chars

VerifyTOTPCodeAny(token, secret, t) == TRUE

\* verify({token, secret, epochTolerance: 30}) at server time t
VerifyTOTPCode(token, secret, t) ==
  /\ secret \in Seeds
  /\ \E c \in Counter(t - EpochTolerance)..Counter(t + EpochTolerance) :
        Digits6(HOTP(secret, c)) = token.chars

\* --- backup codes
LowerChars == <<"a", "b", "c", "d", "e">>
UpperChars == <<"A", "B", "C", "D", "E">>

ToUpperCase(ch) ==
  IF \E n \in 1..Len(LowerChars) : LowerChars[n] = ch
  THEN UpperChars[CHOOSE n \in 1..Len(LowerChars) : LowerChars[n] = ch]
  ELSE ch

\* code.replace(/-/g, "").toUpperCase()
RECURSIVE NormalizeCode(_)
NormalizeCode(chars) ==
  IF chars = << >> THEN << >>
  ELSE IF Head(chars) = "-" THEN NormalizeCode(Tail(chars))
  ELSE <<ToUpperCase(Head(chars))>> \o NormalizeCode(Tail(chars))

\* hashBackupCode: the bcrypt hash of the normalized code
HashBackupCode(chars) == Bcrypt(NormalizeCode(chars))

\* verifyBackupCode: the index of the first matching hash (0-based, -1 for none)
\* and the number of compare calls made
RECURSIVE VerifyFrom(_, _, _)
VerifyFrom(normalized, hashedCodes, i) ==
  IF i >= Len(hashedCodes) THEN [index |-> -1, compares |-> i]
  ELSE IF BcryptCompare(normalized, hashedCodes[i + 1])
       THEN [index |-> i, compares |-> i + 1]
       ELSE VerifyFrom(normalized, hashedCodes, i + 1)

VerifyBackupCode(chars, hashedCodes) == VerifyFrom(NormalizeCode(chars), hashedCodes, 0)

\* removeBackupCode: hashedCodes.filter((_, index) => index !== usedIndex)
RECURSIVE FilterFrom(_, _, _)
FilterFrom(hashedCodes, usedIndex, i) ==
  IF i >= Len(hashedCodes) THEN << >>
  ELSE (IF i # usedIndex THEN <<hashedCodes[i + 1]>> ELSE << >>)
         \o FilterFrom(hashedCodes, usedIndex, i + 1)

RemoveBackupCode(hashedCodes, usedIndex) == FilterFrom(hashedCodes, usedIndex, 0)

\* generateBackupCodes(count): count random codes, upper-case and without
\* dashes. The draws are taken to be distinct, and a code is one character
\* long here; which characters come out does not matter to any handler.
GenerateBackupCodes(count) == [n \in 1..count |-> <<UpperChars[n]>>]

HashedCodes(count) ==
  [n \in 1..count |-> HashBackupCode(GenerateBackupCodes(count)[n])]

NoBackupReq == [phase |-> "idle", user |-> NULL, code |-> << >>, codes |-> << >>, late |-> FALSE]
NoVerifyReq == [phase |-> "idle", user |-> NULL, code |-> Undefined, secret |-> NULL, enabled |-> FALSE]
NoTotp == [seed |-> NULL, genTime |-> 0, token |-> Undefined, at |-> 0, result |-> "none"]

\* ------------------------------------------------- the browser's crypto core
\* (lib/crypto/encryption: PBKDF2 key derivation and AES-256-GCM per field)
VaultPasswords == <<"CorrectHorseBattery9", "WrongPassword">>
KeySalts == 1..Len(VaultPasswords)
ByteRange == 0..3
Modulus == Cardinality(ByteRange)
Plaintexts == {<< >>, <<1>>, <<1, 2>>, <<3, 0, 2>>}

PasswordNumber(password) ==
  CHOOSE n \in 1..Len(VaultPasswords) : VaultPasswords[n] = password

\* deriveKey: deterministic, and distinct for distinct (password, salt)
DeriveKey(password, salt) ==
  [bits |-> salt * Len(VaultPasswords) + PasswordNumber(password)]

\* the cipher's key stream at position i
KeyStream(key, iv, i) == (key.bits + 2 * iv + i) % Modulus

\* the authentication tag over (iv, ciphertext) under the key
GcmTag(key, iv, bytes) == <<key.bits, iv, bytes>>

\* encryptField with the IV drawn for this call
EncryptField(plaintext, key, iv) ==
  LET bytes == [i \in 1..Len(plaintext) |-> (plaintext[i] + KeyStream(key, iv, i)) % Modulus]
  IN [ciphertext |-> [bytes |-> bytes, tag |-> GcmTag(key, iv, bytes)], iv |-> iv]

IntegrityFailure == [ok |-> FALSE, error |-> "IntegrityFailure"]

DecryptFieldNoTag(field, key) ==
  [ok |-> TRUE,
   plaintext |-> [i \in 1..Len(field.ciphertext.bytes) |->
      (field.ciphertext.bytes[i] + Modulus - KeyStream(key, field.iv, i)) % Modulus]]

DecryptFieldShifted(field, key) ==
  IF field.ciphertext.tag # GcmTag(key, field.iv, field.ciphertext.bytes)
  THEN IntegrityFailure
  ELSE [ok |-> TRUE,
        plaintext |-> [i \in 1..Len(field.ciphertext.bytes) |->
           (field.ciphertext.bytes[i] + Modulus - KeyStream(key, field.iv, i + 1)) % Modulus]]

\* decryptField: the tag is verified first
DecryptField(field, key) ==
  IF field.ciphertext.tag # GcmTag(key, field.iv, field.ciphertext.bytes)
  THEN IntegrityFailure
  ELSE [ok |-> TRUE,
        plaintext |-> [i \in 1..Len(field.ciphertext.bytes) |->
           (field.ciphertext.bytes[i] + Modulus - KeyStream(key, field.iv, i)) % Modulus]]

\* encryptVariable(key, value, cryptoKey): one IV for the name, the next for the value
EncryptVariable(name, value, cryptoKey, iv) ==
  [keyEncrypted |-> EncryptField(name, cryptoKey, iv).ciphertext,
   valueEncrypted |-> EncryptField(value, cryptoKey, iv + 1).ciphertext,
   ivKey |-> iv,
   ivValue |-> iv + 1]

\* decryptVariable(keyEncrypted, valueEncrypted, ivKey, ivValue, cryptoKey)
DecryptVariable(keyEncrypted, valueEncrypted, ivKey, ivValue, cryptoKey) ==
  LET k == DecryptField([ciphertext |-> keyEncrypted, iv |-> ivKey], cryptoKey)
      v == DecryptField([ciphertext |-> valueEncrypted, iv |-> ivValue], cryptoKey)
  IN IF k.ok /\ v.ok
     THEN [ok |-> TRUE, key |-> k.plaintext, value |-> v.plaintext]
     ELSE IntegrityFailure

NoKey == [bits |-> 0]
NoEncrypted ==
  [keyEncrypted |-> [bytes |-> << >>, tag |-> << >>],
   valueEncrypted |-> [bytes |-> << >>, tag |-> << >>],
   ivKey |-> 0, ivValue |-> 0]
NoCrypto ==
  [phase |-> "none", name |-> << >>, value |-> << >>, encKey |-> NoKey,
   encrypted |-> NoEncrypted, decKey |-> NoKey, result |-> IntegrityFailure]

\* ------------------------------------------------------- the browser's state
\* the vault store: Locked holds no key
LockedVault ==
  [state |-> "Locked", cryptoKey |-> NoKey, deriving |-> 0, pending |-> "", idle |-> 0,
   report |-> ""]

\* each browser tab holds a vault session of its own; the dialogs run in one
VaultTabs == {"tab1", "tab2"}
FlowTab == "tab1"
NoCall ==
  [action |-> "none", scope |-> NULL, data |-> [isSecret |-> FALSE],
   key |-> << >>, value |-> << >>, cryptoKey |-> NoKey]
\* the REST API: an answer, the projects, an open bulk replace
NoAuth == [authorized |-> FALSE, error |-> ""]
NoApiResp == [op |-> "none", auth |-> NoAuth, status |-> 0, error |-> "", body |-> << >>]
ApiProjects == {"p1", "p2"}
NoPut == [phase |-> "none", id |-> NULL, envId |-> NULL, variables |-> << >>,
          deleted |-> {}]
NoTeamCall == [op |-> "none", teamId |-> 0, error |-> ""]
NoJob == [kind |-> "none", scope |-> NULL, items |-> << >>, i |-> 0, cryptoKey |-> NoKey]

\* the environments of the signed-in user's project, and the user's globals
ClientEnvs == {"dev", "prod"}
GlobalScope == "global"

\* what the user types or imports: a name and a value
Entries ==
  {[key |-> <<1>>, value |-> <<3, 0, 2>>], [key |-> <<1, 2>>, value |-> <<1>>]}

InitUsers ==
  [u \in Users |->
    [masterPassword |-> Bcrypt("m1"),
     encryptionSalt |-> IF u = "u1" THEN 1 ELSE 2,
     password |-> IF u = "u1" THEN Bcrypt("p1") ELSE NoHash,
     twoFactorEnabled |-> FALSE,
     twoFactorSecret |-> NULL,
     twoFactorBackupCodes |-> << >>]]

NoBody ==
  [currentPasswordHash |-> NULL, newMasterPasswordHash |-> NULL, newSalt |-> 0,
   variables |-> << >>, globalVariables |-> << >>]

\* phase, user, body, pc, i, buf, gbuf: the request and its open transaction;
\* snapVars, snapGlobals: what the client read before re-encrypting;
\* oldSalt, oldMp, conflict, k: history kept for the properties
NoRot ==
  [phase |-> "none", user |-> NULL, snapVars |-> {}, snapGlobals |-> {},
   body |-> NoBody, pc |-> "none", i |-> 0, buf |-> {}, gbuf |-> {},
   oldSalt |-> 0, oldMp |-> NoHash, conflict |-> FALSE, k |-> 0]

\* a finished request keeps only its outcome
Finished(phase, k) == [NoRot EXCEPT !.phase = phase, !.user = rot.user, !.k = k]
Rejected(body) ==
  [NoRot EXCEPT !.phase = "rejected", !.user = rot.user,
                !.body = [NoBody EXCEPT !.currentPasswordHash = body.currentPasswordHash]]

NoResp == [op |-> "none", user |-> NULL, status |-> 0, error |-> "", compares |-> 0]
Resp(op, u, status, error) == [NoResp EXCEPT !.op = op, !.user = u, !.status = status, !.error = error]

InitRest ==
  /\ variables = [id \in 1..MaxVars |-> NoRow]
  /\ globals = [id \in 1..MaxGlobals |-> NoRow]
  /\ nextVarId = 1
  /\ nextGlobalId = 1
  /\ nextSalt = FirstFreshSalt
  /\ rot = NoRot
  /\ audit = [userId |-> NULL, action |-> "none", success |-> FALSE, written |-> FALSE,
              threw |-> FALSE]
  /\ resp = NoResp
  /\ bk = [r \in Reqs |-> NoBackupReq]
  /\ vf = NoVerifyReq
  /\ used = [u \in Users |-> {}]
  /\ now = T0
  /\ totp = NoTotp
  /\ nextIv = 1
  /\ cx = NoCrypto
  /\ records = [id \in 1..MaxRecords |-> NoRow]
  /\ nextRecId = 1
  /\ call = NoCall
  /\ job = NoJob
  /\ ivLog = << >>
  /\ teams = [id \in 1..MaxTeams |-> NoRow]
  /\ members = [id \in 1..MaxMembers |-> NoRow]
  /\ nextTeamId = 1
  /\ nextMemberId = 1
  /\ teamCall = NoTeamCall
  /\ nextTokenId = 1
  /\ apiNow = 0
  /\ apiResp = NoApiResp
  /\ projects = ApiProjects
  /\ apiVars = [id \in 1..MaxApiVars |-> NoRow]
  /\ nextApiVarId = 1
  /\ put = NoPut

Init ==
  /\ users = InitUsers
  /\ InitRest
  /\ vault = [t \in VaultTabs |-> LockedVault]
  /\ tokens = [id \in 1..MaxTokens |-> NoRow]

\* ------------------------------------------------------------------ helpers
\* ascending sequence of the elements of a finite set of integers
RECURSIVE SortedSeq(_)
SortedSeq(S) ==
  IF S = {} THEN << >>
  ELSE LET m == CHOOSE x \in S : \A y \in S : x <= y
       IN <<m>> \o SortedSeq(S \ {m})

\* a logAudit without its try/catch: a failed write reaches the caller
LogAuditThrows(entry) ==
  {[userId |-> entry.userId, action |-> entry.action, success |-> entry.success, written |-> w,
    threw |-> ~w] : w \in BOOLEAN}

\* logAudit: the row is written, or the write fails and the error is swallowed
LogAudit(entry) ==
  {[userId |-> entry.userId, action |-> entry.action, success |-> entry.success, written |-> w,
    threw |-> FALSE] : w \in BOOLEAN}

\* the try/catch of a route around an awaited call: the answer r, or the
\* catch block's 500 if the call threw
Caught(r, called, error) ==
  IF called.threw THEN [r EXCEPT !.status = 500, !.error = error] ELSE r

\* requireVariableOwnership
OwnsVariable(u, id) ==
  /\ id \in 1..MaxVars
  /\ variables[id] # NoRow
  /\ EnvUser(variables[id].environmentId) = u

\* requireGlobalVariableOwnership
OwnsGlobal(u, id) ==
  /\ id \in 1..MaxGlobals
  /\ globals[id] # NoRow
  /\ globals[id].userId = u

\* a row updated inside the open transaction is locked until it ends
Locked(id) == rot.phase = "tx" /\ id \in rot.buf

\* a create/update of a record of the rotating user between snapshot and commit
Interleaved(u) ==
  IF rot.phase \in {"snap", "tx"} /\ rot.user = u
  THEN [rot EXCEPT !.conflict = TRUE] ELSE rot

\* --------------------------------------------------- variable server actions
CreateVariable(u, e) ==
  /\ nextVarId <= MaxVars
  /\ EnvUser(e) = u
  /\ variables' = [variables EXCEPT ![nextVarId] =
        [environmentId |-> e, salt |-> users[u].encryptionSalt]]
  /\ nextVarId' = nextVarId + 1
  /\ rot' = Interleaved(u)
  /\ UNCHANGED <<users, globals, nextGlobalId, nextSalt, audit, resp>>
  /\ UNCHANGED tfaVars
  /\ UNCHANGED cliVars

UpdateVariable(u, id) ==
  /\ ~Locked(id)
  /\ OwnsVariable(u, id)
  /\ variables' = [variables EXCEPT ![id].salt = users[u].encryptionSalt]
  /\ rot' = Interleaved(u)
  /\ UNCHANGED <<users, globals, nextVarId, nextGlobalId, nextSalt, audit, resp>>
  /\ UNCHANGED tfaVars
  /\ UNCHANGED cliVars

DeleteVariable(u, id) ==
  /\ ~Locked(id)
  /\ OwnsVariable(u, id)
  /\ variables' = [variables EXCEPT ![id] = NoRow]
  /\ UNCHANGED <<users, globals, nextVarId, nextGlobalId, nextSalt, rot, audit, resp>>
  /\ UNCHANGED tfaVars
  /\ UNCHANGED cliVars

CreateGlobalVariable(u) ==
  /\ nextGlobalId <= MaxGlobals
  /\ globals' = [globals EXCEPT ![nextGlobalId] =
        [userId |-> u, salt |-> users[u].encryptionSalt]]
  /\ nextGlobalId' = nextGlobalId + 1
  /\ rot' = Interleaved(u)
  /\ UNCHANGED <<users, variables, nextVarId, nextSalt, audit, resp>>
  /\ UNCHANGED tfaVars
  /\ UNCHANGED cliVars

\* ------------------------------------------------ change master password
\* the client's snapshot: GET projects (with variables) and getGlobalVariables
RotSnapshot(u) ==
  /\ rot.phase \in {"none", "committed", "aborted", "rejected"}
  /\ nextSalt <= MaxSalt
  /\ rot' = [NoRot EXCEPT
        !.phase = "snap", !.user = u,
        !.snapVars = {id \in 1..MaxVars : OwnsVariable(u, id)},
        !.snapGlobals = {id \in 1..MaxGlobals : OwnsGlobal(u, id)}]
  /\ UNCHANGED <<users, variables, globals, nextVarId, nextGlobalId, nextSalt, audit, resp>>
  /\ UNCHANGED tfaVars
  /\ UNCHANGED cliVars

\* POST up to the transaction: session, user lookup, current-password check
RotPost(cur, new, ids, gids) ==
  /\ rot.phase = "snap"
  /\ LET u == rot.user
         body == [currentPasswordHash |-> cur, newMasterPasswordHash |-> new,
                  newSalt |-> nextSalt,
                  variables |-> SortedSeq(ids), globalVariables |-> SortedSeq(gids)]
     IN
     /\ nextSalt' = nextSalt + 1
     /\ IF users[u].masterPassword = NoHash
        THEN /\ rot' = Rejected(body)
             /\ resp' = Resp("changeMasterPassword", rot.user, 400, "User not found or master password not set")
             /\ UNCHANGED audit
        ELSE IF ~BcryptCompare(cur, users[u].masterPassword)
        THEN /\ rot' = Rejected(body)
             /\ audit' \in LogAudit([userId |-> u, action |-> "CHANGE_MASTER_PASSWORD", success |-> FALSE])
             /\ resp' = Caught(Resp("changeMasterPassword", rot.user, 401,
                                    "Current password is incorrect"),
                               audit', "Failed to change master password")
        ELSE /\ rot' = [rot EXCEPT !.phase = "tx", !.body = body, !.pc = "user", !.i = 1,
                          !.oldSalt = users[u].encryptionSalt,
                          !.oldMp = users[u].masterPassword]
             /\ UNCHANGED <<audit, resp>>
  /\ UNCHANGED <<users, variables, globals, nextVarId, nextGlobalId>>
  /\ UNCHANGED tfaVars
  /\ UNCHANGED cliVars

\* a write made through the transaction client stays in the transaction
TxWriteDirect(store, buf, id, salt) ==
  [store |-> [store EXCEPT ![id].salt = salt], buf |-> buf]

TxWrite(store, buf, id, salt) ==
  [store |-> store, buf |-> buf \cup {id}]

\* the transaction is rolled back and the catch block answers 500
Rollback ==
  /\ rot' = Finished("aborted", Cardinality(rot.buf) + Cardinality(rot.gbuf))
  /\ resp' = Resp("changeMasterPassword", rot.user, 500, "Failed to change master password")

\* tx.user.update
RotTxUserUpdate ==
  /\ rot.phase = "tx" /\ rot.pc = "user"
  /\ rot' = [rot EXCEPT !.pc = "vars"]
  /\ UNCHANGED <<users, variables, globals, nextVarId, nextGlobalId, nextSalt, audit, resp>>
  /\ UNCHANGED tfaVars
  /\ UNCHANGED cliVars

\* one iteration of the loop over body.variables
RotTxVariableUpdate ==
  /\ rot.phase = "tx" /\ rot.pc = "vars"
  /\ rot.i <= Len(rot.body.variables)
  /\ LET id == rot.body.variables[rot.i] IN
     IF variables[id] = NoRow
     THEN Rollback /\ UNCHANGED variables
     ELSE LET w == TxWrite(variables, rot.buf, id, rot.body.newSalt) IN
          /\ variables' = w.store
          /\ rot' = [rot EXCEPT !.buf = w.buf, !.i = rot.i + 1]
          /\ UNCHANGED resp
  /\ UNCHANGED <<users, globals, nextVarId, nextGlobalId, nextSalt, audit>>
  /\ UNCHANGED tfaVars
  /\ UNCHANGED cliVars

\* one iteration of the loop over body.globalVariables
RotTxGlobalUpdate ==
  /\ rot.phase = "tx" /\ rot.pc \in {"vars", "globals"}
  /\ rot.pc = "vars" => rot.i > Len(rot.body.variables)
  /\ LET j == IF rot.pc = "vars" THEN 1 ELSE rot.i IN
     /\ j <= Len(rot.body.globalVariables)
     /\ LET id == rot.body.globalVariables[j] IN
        IF globals[id] = NoRow
        THEN Rollback /\ UNCHANGED globals
        ELSE LET w == TxWrite(globals, rot.gbuf, id, rot.body.newSalt) IN
             /\ globals' = w.store
             /\ rot' = [rot EXCEPT !.gbuf = w.buf, !.i = j + 1, !.pc = "globals"]
             /\ UNCHANGED resp
  /\ UNCHANGED <<users, variables, nextVarId, nextGlobalId, nextSalt, audit>>
  /\ UNCHANGED tfaVars
  /\ UNCHANGED cliVars

TxDone ==
  /\ rot.phase = "tx"
  /\ \/ rot.pc = "vars" /\ rot.i > Len(rot.body.variables) /\ Len(rot.body.globalVariables) = 0
     \/ rot.pc = "globals" /\ rot.i > Len(rot.body.globalVariables)

\* the transaction commits, then the success audit row and the 200 response
RotTxCommit ==
  /\ TxDone
  /\ LET u == rot.user IN
     /\ users' = [users EXCEPT ![u].masterPassword = Bcrypt(rot.body.newMasterPasswordHash),
                               ![u].encryptionSalt = rot.body.newSalt]
     /\ variables' = [id \in 1..MaxVars |->
           IF id \in rot.buf THEN [variables[id] EXCEPT !.salt = rot.body.newSalt]
           ELSE variables[id]]
     /\ globals' = [id \in 1..MaxGlobals |->
           IF id \in rot.gbuf THEN [globals[id] EXCEPT !.salt = rot.body.newSalt]
           ELSE globals[id]]
     /\ audit' \in LogAudit([userId |-> u, action |-> "CHANGE_MASTER_PASSWORD", success |-> TRUE])
  /\ rot' = Finished("committed", Cardinality(rot.buf) + Cardinality(rot.gbuf))
  /\ resp' = Caught(Resp("changeMasterPassword", rot.user, 200, ""),
                    audit', "Failed to change master password")
  /\ UNCHANGED <<nextVarId, nextGlobalId, nextSalt>>
  /\ UNCHANGED tfaVars
  /\ UNCHANGED cliVars

\* a fault inside the transaction (connection loss, timeout)
RotTxFault ==
  /\ rot.phase = "tx"
  /\ Rollback
  /\ UNCHANGED <<users, variables, globals, nextVarId, nextGlobalId, nextSalt, audit>>
  /\ UNCHANGED tfaVars
  /\ UNCHANGED cliVars

NextRotation ==
  \/ \E u \in Users, e \in Envs : CreateVariable(u, e)
  \/ \E u \in Users, id \in 1..MaxVars : UpdateVariable(u, id)
  \/ \E u \in Users, id \in 1..MaxVars : DeleteVariable(u, id)
  \/ \E u \in Users : CreateGlobalVariable(u)
  \/ \E u \in RotatingUsers : RotSnapshot(u)
  \/ \E cur \in MasterPws, new \in MasterPws,
        ids \in SUBSET (1..MaxVars), gids \in SUBSET (1..MaxGlobals) :
        RotPost(cur, new, ids, gids)
  \/ RotTxUserUpdate
  \/ RotTxVariableUpdate
  \/ RotTxGlobalUpdate
  \/ RotTxCommit
  \/ RotTxFault

SpecRotation == Init /\ [][NextRotation]_vars

\* ------------------------------------------------------- rotation properties
Range(q) == {q[n] : n \in 1..Len(q)}

\* C1: rotation is all-or-nothing. While the transaction is open and after it
\* has been rolled back (a fault after the user row and any k of the n records),
\* storage shows the old salt, the old master-password hash and no submitted
\* record under the new salt; the step that commits shows the new salt, the new
\* hash and every submitted record re-encrypted. No step shows a mix.
C1_RotationAllOrNothing ==
  [][ /\ (rot.phase = "tx" /\ rot'.phase \in {"tx", "aborted"}) =>
          /\ users'[rot.user].encryptionSalt = rot.oldSalt
          /\ users'[rot.user].masterPassword = rot.oldMp
          /\ \A id \in Range(rot.body.variables) :
                variables'[id] = NoRow \/ variables'[id].salt # rot.body.newSalt
          /\ \A id \in Range(rot.body.globalVariables) :
                globals'[id] = NoRow \/ globals'[id].salt # rot.body.newSalt
      /\ (rot.phase = "tx" /\ rot'.phase = "committed") =>
          /\ users'[rot.user].encryptionSalt = rot.body.newSalt
          /\ users'[rot.user].masterPassword = Bcrypt(rot.body.newMasterPasswordHash)
          /\ \A id \in Range(rot.body.variables) :
                variables'[id] # NoRow /\ variables'[id].salt = rot.body.newSalt
          /\ \A id \in Range(rot.body.globalVariables) :
                globals'[id] # NoRow /\ globals'[id].salt = rot.body.newSalt
    ]_vars

\* C1 witness: a fault hit the transaction after the user row and at least one
\* record had been updated, and storage still shows the old salt
C1_FaultAfterSomeRecords ==
  /\ rot.phase = "aborted" /\ rot.k >= 1
  /\ users[rot.user].encryptionSalt < FirstFreshSalt

\* C2 (as claimed): the salt of a user changes only in a step after which every
\* variable and every global variable owned by that user is encrypted under the
\* new salt; a commit whose list does not cover them all leaves the salt alone.
C2_SaltChangesIffAllReencrypted ==
  [][ \A u \in Users :
        users'[u].encryptionSalt # users[u].encryptionSalt =>
          /\ \A id \in 1..MaxVars :
                (variables'[id] # NoRow /\ EnvUser(variables'[id].environmentId) = u)
                  => variables'[id].salt = users'[u].encryptionSalt
          /\ \A id \in 1..MaxGlobals :
                (globals'[id] # NoRow /\ globals'[id].userId = u)
                  => globals'[id].salt = users'[u].encryptionSalt
    ]_vars

\* C3 (as claimed): a rotation that submits exactly what it read commits only if
\* no create or update for that user interleaved since the snapshot, so the
\* commit leaves no record of the user under the old salt.
C3_NoInterleavedWriteBeforeCommit ==
  [][ ( /\ rot.phase = "tx" /\ rot'.phase = "committed"
        /\ Range(rot.body.variables) = rot.snapVars
        /\ Range(rot.body.globalVariables) = rot.snapGlobals ) =>
          /\ ~rot.conflict
          /\ \A id \in 1..MaxVars :
                (variables'[id] # NoRow /\ EnvUser(variables'[id].environmentId) = rot.user)
                  => variables'[id].salt = rot.body.newSalt
          /\ \A id \in 1..MaxGlobals :
                (globals'[id] # NoRow /\ globals'[id].userId = rot.user)
                  => globals'[id].salt = rot.body.newSalt
    ]_vars

\* C4: a request whose current password does not match the stored hash is
\* answered 401 "Current password is incorrect" and leaves the user row and
\* every variable and global variable exactly as they were.
C4_WrongCurrentPasswordAborts ==
  [][ ( /\ rot.phase = "snap" /\ rot'.phase # "snap"
        /\ users[rot.user].masterPassword # Bcrypt(rot'.body.currentPasswordHash) ) =>
          /\ rot'.phase = "rejected"
          /\ resp'.status = 401 /\ resp'.error = "Current password is incorrect"
          /\ users' = users /\ variables' = variables /\ globals' = globals
    ]_vars

\* C4 witness: a rotation was rejected for a wrong current password while the
\* user had a record to re-encrypt
C4_RejectedWrongPassword ==
  /\ rot.phase = "rejected" /\ resp.status = 401
  /\ users[rot.user].masterPassword # Bcrypt(rot.body.currentPasswordHash)
  /\ \E id \in 1..MaxVars : OwnsVariable(rot.user, id)

\* ------------------------------------------------------ second-factor routes
\* 2FA setup (enrollment): a fresh seed and freshly hashed backup codes are
\* stored; 2FA stays pending until a code has been verified
Setup2FA(u, seed) ==
  /\ ~users[u].twoFactorEnabled
  /\ users' = [users EXCEPT ![u].twoFactorSecret = seed,
                            ![u].twoFactorBackupCodes = HashedCodes(MaxBackupCodes)]
  /\ used' = [used EXCEPT ![u] = {}]
  /\ bk' = [r \in Reqs |-> IF bk[r].user = u THEN [bk[r] EXCEPT !.late = FALSE] ELSE bk[r]]
  /\ resp' = Resp("2fa/setup", u, 200, "")
  /\ UNCHANGED <<cliVars, rotVars, audit, vf, now, totp>>

\* POST 2fa/verify up to the user lookup
Verify2FARead(u, code) ==
  /\ vf.phase = "idle"
  /\ IF ~TotpCodeSchema(code)
     THEN /\ resp' = Resp("2fa/verify", u, 400,
                 IF code.type # "string" THEN "Invalid input"
                 ELSE IF Len(code.chars) # 6 THEN "Code must be 6 digits"
                 ELSE "Code must contain only numbers")
          /\ UNCHANGED vf
     ELSE IF users[u].twoFactorSecret = NULL
     THEN /\ resp' = Resp("2fa/verify", u, 400,
                 "Two-factor authentication not set up. Please start setup first.")
          /\ UNCHANGED vf
     ELSE /\ vf' = [phase |-> "read", user |-> u, code |-> code,
                    secret |-> users[u].twoFactorSecret,
                    enabled |-> users[u].twoFactorEnabled]
          /\ UNCHANGED resp
  /\ UNCHANGED <<cliVars, rotVars, users, audit, bk, used, now, totp>>

\* POST 2fa/verify from verifyTOTPCode to the response
Verify2FAFinish ==
  /\ vf.phase = "read"
  /\ LET u == vf.user IN
     IF ~VerifyTOTPCode(vf.code, vf.secret, now)
     THEN /\ resp' = Resp("2fa/verify", u, 401, "Invalid verification code")
          /\ UNCHANGED <<users, audit>>
     ELSE /\ IF ~vf.enabled
             THEN /\ users' = [users EXCEPT ![u].twoFactorEnabled = TRUE]
                  /\ audit' \in LogAudit([userId |-> u, action |-> "ENABLE_2FA", success |-> TRUE])
                  /\ resp' = Caught(Resp("2fa/verify", u, 200, ""), audit', "Failed to verify code")
             ELSE /\ resp' = Resp("2fa/verify", u, 200, "")
                  /\ UNCHANGED <<users, audit>>
  /\ vf' = NoVerifyReq
  /\ UNCHANGED <<cliVars, rotVars, bk, used, now, totp>>

\* auth(): the session's user, or none
Sessions == Users \cup {NULL}

\* POST 2fa/disable (u: the session's user)
Disable2FA(u, password) ==
  /\ IF u = NULL
     THEN /\ resp' = Resp("2fa/disable", u, 401, "Unauthorized")
          /\ UNCHANGED <<users, audit>>
     ELSE IF password = ""
     THEN /\ resp' = Resp("2fa/disable", u, 400, "Password is required to disable 2FA")
          /\ UNCHANGED <<users, audit>>
     ELSE IF users[u].password = NoHash
     THEN /\ resp' = Resp("2fa/disable", u, 400, "Cannot disable 2FA for OAuth accounts")
          /\ UNCHANGED <<users, audit>>
     ELSE IF ~users[u].twoFactorEnabled
     THEN /\ resp' = Resp("2fa/disable", u, 400, "Two-factor authentication is not enabled")
          /\ UNCHANGED <<users, audit>>
     ELSE IF ~BcryptCompare(password, users[u].password)
     THEN /\ resp' = Resp("2fa/disable", u, 401, "Invalid password")
          /\ UNCHANGED <<users, audit>>
     ELSE /\ users' = [users EXCEPT ![u].twoFactorEnabled = FALSE,
                                    ![u].twoFactorSecret = NULL]
          /\ audit' \in LogAudit([userId |-> u, action |-> "DISABLE_2FA", success |-> TRUE])
          /\ resp' = Caught(Resp("2fa/disable", u, 200, ""), audit',
                            "Failed to disable two-factor authentication")
  /\ UNCHANGED <<cliVars, rotVars, bk, vf, used, now, totp>>

\* POST 2fa/backup up to the user lookup
BackupRead(r, u, code) ==
  /\ bk[r].phase = "idle"
  /\ IF code.type # "string" \/ code.chars = << >>
     THEN /\ resp' = Resp("2fa/backup", u, 400, "Backup code is required")
          /\ UNCHANGED bk
     ELSE IF ~users[u].twoFactorEnabled
     THEN /\ resp' = Resp("2fa/backup", u, 400, "Two-factor authentication is not enabled")
          /\ UNCHANGED bk
     ELSE IF Len(users[u].twoFactorBackupCodes) = 0
     THEN /\ resp' = Resp("2fa/backup", u, 400, "No backup codes available")
          /\ UNCHANGED bk
     ELSE /\ bk' = [bk EXCEPT ![r] =
                 [phase |-> "read", user |-> u, code |-> code.chars,
                  codes |-> users[u].twoFactorBackupCodes,
                  late |-> NormalizeCode(code.chars) \in used[u]]]
          /\ UNCHANGED resp
  /\ UNCHANGED <<cliVars, rotVars, users, audit, vf, used, now, totp>>

\* POST 2fa/backup from verifyBackupCode to the response
BackupFinish(r) ==
  /\ bk[r].phase = "read"
  /\ LET u == bk[r].user
         v == VerifyBackupCode(bk[r].code, bk[r].codes)
         remainingCodes == RemoveBackupCode(bk[r].codes, v.index)
     IN
     IF v.index = -1
     THEN /\ audit' \in LogAudit([userId |-> u, action |-> "UNLOCK_FAILED", success |-> FALSE])
          /\ resp' = Caught([Resp("2fa/backup", u, 401, "Invalid backup code")
                               EXCEPT !.compares = v.compares],
                            audit', "Failed to verify backup code")
          /\ UNCHANGED <<users, used>>
     ELSE /\ users' = [users EXCEPT ![u].twoFactorBackupCodes = remainingCodes]
          /\ audit' \in LogAudit([userId |-> u, action |-> "UNLOCK_VAULT", success |-> TRUE])
          /\ resp' = Caught([Resp("2fa/backup", u, 200, "")
                               EXCEPT !.compares = v.compares],
                            audit', "Failed to verify backup code")
          /\ used' = [used EXCEPT ![u] = @ \cup {NormalizeCode(bk[r].code)}]
  /\ bk' = [bk EXCEPT ![r] = NoBackupReq]
  /\ UNCHANGED <<cliVars, rotVars, vf, now, totp>>

\* what clients submit
TotpCandidates ==
  {Token(s, now + d) : s \in Seeds, d \in {0, -Period, -3 * Period}}
    \cup {Str(<<"1", "2", "3", "4", "5">>), Str(<<"1", "2", "3", "4", "5", "x">>),
          Num(123456), Undefined}

\* a code as displayed (with the dash) and typed in lower case
Typed(chars) ==
  <<LowerChars[CHOOSE n \in 1..Len(UpperChars) : UpperChars[n] = chars[1]], "-">>

\* every issued code as issued and as typed, a code never issued, and no code
BackupCandidates ==
  {Str(GenerateBackupCodes(MaxBackupCodes)[n]) : n \in 1..MaxBackupCodes}
    \cup {Str(Typed(GenerateBackupCodes(MaxBackupCodes)[n])) : n \in 1..MaxBackupCodes}
    \cup {Str(<<UpperChars[MaxBackupCodes + 1]>>), Str(<< >>), Undefined}

Next2FA ==
  \/ \E u \in EnrollingUsers, seed \in Seeds : Setup2FA(u, seed)
  \/ \E u \in EnrollingUsers, code \in TotpCandidates : Verify2FARead(u, code)
  \/ Verify2FAFinish
  \/ \E u \in Sessions, password \in AccountPws \cup {""} : Disable2FA(u, password)

Spec2FA == Init /\ [][Next2FA]_vars

\* 2FA is enabled and the backup codes have been issued
InitBackup ==
  /\ InitRest
  /\ tokens = [id \in 1..MaxTokens |-> NoRow]
  /\ vault = [t \in VaultTabs |-> LockedVault]
  /\ users = [u \in Users |->
       IF u \in EnrollingUsers
       THEN [InitUsers[u] EXCEPT !.twoFactorEnabled = TRUE,
                                 !.twoFactorSecret = "JBSWY3DPEHPK3PXP",
                                 !.twoFactorBackupCodes = HashedCodes(MaxBackupCodes)]
       ELSE InitUsers[u]]

NextBackup ==
  \/ \E r \in Reqs, u \in Users, code \in BackupCandidates : BackupRead(r, u, code)
  \/ \E r \in Reqs : BackupFinish(r)
  \/ \E u \in Sessions, password \in AccountPws \cup {""} : Disable2FA(u, password)

SpecBackup == InitBackup /\ [][NextBackup]_vars

\* ----------------------------------------------------------------- TOTP window
DriftOffsets == {-21, -20, 0, 9, 10}
TotpTimes ==
  {T0 + Period * k + d : k \in (0 - MaxDriftSteps)..MaxDriftSteps, d \in DriftOffsets}

\* the authenticator shows the code of its own clock
TotpGenerate(seed, t) ==
  /\ totp' = [seed |-> seed, genTime |-> t, token |-> Token(seed, t), at |-> 0, result |-> "none"]
  /\ UNCHANGED <<cliVars, rotVars, users, audit, resp, bk, vf, used, now>>

\* the server clock at the time the code arrives
ClockSet(t) ==
  /\ t # now
  /\ now' = t
  /\ UNCHANGED <<cliVars, rotVars, users, audit, resp, bk, vf, used, totp>>

\* verifyTOTPCode(token, secret) at the server's time
TotpVerify ==
  /\ totp.seed # NULL
  /\ totp' = [totp EXCEPT !.at = now,
        !.result = IF VerifyTOTPCode(totp.token, totp.seed, now) THEN "valid" ELSE "invalid"]
  /\ UNCHANGED <<cliVars, rotVars, users, audit, resp, bk, vf, used, now>>

NextTotp ==
  \/ \E seed \in Seeds, t \in TotpTimes : TotpGenerate(seed, t)
  \/ \E t \in TotpTimes : ClockSet(t)
  \/ TotpVerify

SpecTotp == Init /\ [][NextTotp]_vars

\* ---------------------------------------------------- second-factor properties
IsFinish(r) == bk[r].phase = "read" /\ bk'[r].phase = "idle"

\* C5 (as claimed): a backup code is one-time. A submission that reaches
\* verification after the same code (up to dashes and case) has been verified
\* successfully is answered 401 "Invalid backup code".
C5_BackupCodeOneTime ==
  [][ \A r \in Reqs :
        (IsFinish(r) /\ bk[r].late) =>
          (resp'.status = 401 /\ resp'.error = "Invalid backup code")
    ]_vars

\* the list q without its n-th element
Without(q, n) == SubSeq(q, 1, n - 1) \o SubSeq(q, n + 1, Len(q))

\* C6 (as claimed): a successful verification persists the previously stored
\* list with exactly the one matched hash removed; a failed one leaves the
\* stored list as it was.
C6_ExactlyMatchedHashRemoved ==
  [][ \A r \in Reqs :
        IsFinish(r) =>
          LET prev == users[bk[r].user].twoFactorBackupCodes
              new == users'[bk[r].user].twoFactorBackupCodes
          IN IF resp'.status = 200
             THEN /\ Len(new) = Len(prev) - 1
                  /\ \E n \in 1..Len(prev) :
                       /\ prev[n] = Bcrypt(NormalizeCode(bk[r].code))
                       /\ new = Without(prev, n)
             ELSE new = prev
    ]_vars

\* C7 (as claimed): verification compares the candidate with every stored hash:
\* the number of compare calls equals the length of the list that was read.
C7_ComparesEveryHash ==
  [][ \A r \in Reqs : IsFinish(r) => resp'.compares = Len(bk[r].codes) ]_vars

WellFormed6(code) ==
  /\ code.type = "string"
  /\ Len(code.chars) = 6
  /\ \A n \in 1..6 : code.chars[n] \in {"0", "1", "2", "3", "4", "5", "6", "7", "8", "9"}

\* the code belongs to the current 30-second step or to one next to it
InWindow(code, seed, t) ==
  \E k \in {-1, 0, 1} : code.chars = Digits6(HOTP(seed, (t \div 30) + k))

VerifyStep == vf.phase = "read" /\ vf'.phase = "idle"

C9_TotpWindow ==
  totp.result # "none" =>
    /\ (totp.result = "valid") <=>
         ((totp.genTime \div 30) - (totp.at \div 30) \in {-1, 0, 1})
    /\ (totp.genTime = 1700000000 /\ totp.at \in {1700000000, 1700000030, 1699999970})
         => totp.result = "valid"
    /\ (totp.genTime = 1700000000 /\ totp.at \in {1700000090, 1699999910})
         => totp.result = "invalid"

\* C9 witness: the code of 1700000000 was rejected ninety seconds later
C9_RejectedAfterNinetySeconds ==
  /\ totp.seed = "JBSWY3DPEHPK3PXP"
  /\ totp.genTime = 1700000000 /\ totp.at = 1700000090
  /\ totp.result = "invalid"

\* C10 (as claimed): after a successful disable neither the seed nor any
\* backup-code hash of the user is stored and twoFactorEnabled is false.
C10_DisableDestroysCredential ==
  (resp.op = "2fa/disable" /\ resp.status = 200) =>
    /\ ~users[resp.user].twoFactorEnabled
    /\ users[resp.user].twoFactorSecret = NULL
    /\ users[resp.user].twoFactorBackupCodes = << >>

\* C12: with 2FA enabled and an empty stored list a backup-code submission is
\* answered 400 "No backup codes available", no comparison is made and nothing
\* stored changes; and no step of the backup route makes the stored list of a
\* user longer, so an exhausted list stays exhausted.
C12_ExhaustedListRejected ==
  [][ /\ \A r \in Reqs, u \in Users, code \in BackupCandidates :
           ( /\ BackupRead(r, u, code)
             /\ code.type = "string" /\ code.chars # << >>
             /\ users[u].twoFactorEnabled
             /\ users[u].twoFactorBackupCodes = << >> ) =>
               /\ resp'.status = 400 /\ resp'.error = "No backup codes available"
               /\ resp'.compares = 0
               /\ users' = users /\ bk' = bk
      /\ \A u \in Users :
           Len(users'[u].twoFactorBackupCodes) <= Len(users[u].twoFactorBackupCodes)
    ]_vars

\* a disable request that passes every guard of the route
DisableAllowed(u, password) ==
  /\ u # NULL /\ password # ""
  /\ users[u].password # NoHash
  /\ users[u].twoFactorEnabled
  /\ users[u].password = Bcrypt(password)

\* C20: a disable request takes effect exactly when the caller has a session,
\* 2FA is enabled and the password matches the stored hash; every other request
\* (no session, no password, OAuth account, 2FA not enabled, wrong password) is
\* answered with an error and leaves twoFactorEnabled and the seed of every user
\* as they were; and twoFactorEnabled is switched off by no other step.
C20_DisableGuards ==
  [][ /\ \A u \in Sessions, password \in AccountPws \cup {""} :
           Disable2FA(u, password) =>
             IF DisableAllowed(u, password)
             THEN /\ resp'.status = 200
                  /\ ~users'[u].twoFactorEnabled
                  /\ users'[u].twoFactorSecret = NULL
             ELSE /\ resp'.status \in {400, 401} /\ resp'.error # ""
                  /\ \A v \in Users :
                       /\ users'[v].twoFactorEnabled = users[v].twoFactorEnabled
                       /\ users'[v].twoFactorSecret = users[v].twoFactorSecret
      /\ \A v \in Users :
           (users[v].twoFactorEnabled /\ ~users'[v].twoFactorEnabled) =>
             (resp'.op = "2fa/disable" /\ resp'.user = v /\ resp'.status = 200)
    ]_vars

\* C20 witness: a disable with a wrong password was refused while 2FA was enabled
C20_WrongPasswordRefused ==
  /\ resp.op = "2fa/disable" /\ resp.status = 401 /\ resp.error = "Invalid password"
  /\ users[resp.user].twoFactorEnabled
  /\ users[resp.user].twoFactorSecret # NULL

\* ------------------------------------------------------------ crypto round trip
\* encryptVariable under a derived key, with fresh IVs
CryptoEncrypt(name, value, password, salt) ==
  /\ nextIv + 1 <= MaxIvs
  /\ cx' = [NoCrypto EXCEPT
        !.phase = "encrypted", !.name = name, !.value = value,
        !.encKey = DeriveKey(password, salt),
        !.encrypted = EncryptVariable(name, value, DeriveKey(password, salt), nextIv)]
  /\ nextIv' = nextIv + 2
  /\ UNCHANGED <<rotVars, tfaVars, users, audit, resp, vault, flowVars, extVars>>

\* decryptVariable of that output under a key derived again
CryptoDecrypt(password, salt) ==
  /\ cx.phase \in {"encrypted", "decrypted"}
  /\ cx' = [cx EXCEPT
        !.phase = "decrypted", !.decKey = DeriveKey(password, salt),
        !.result = DecryptVariable(cx.encrypted.keyEncrypted, cx.encrypted.valueEncrypted,
                                   cx.encrypted.ivKey, cx.encrypted.ivValue,
                                   DeriveKey(password, salt))]
  /\ UNCHANGED <<rotVars, tfaVars, users, audit, resp, nextIv, vault, flowVars, extVars>>

NextCrypto ==
  \/ \E name \in Plaintexts, value \in Plaintexts,
        n \in 1..Len(VaultPasswords), salt \in KeySalts :
        CryptoEncrypt(name, value, VaultPasswords[n], salt)
  \/ \E n \in 1..Len(VaultPasswords), salt \in KeySalts :
        CryptoDecrypt(VaultPasswords[n], salt)

SpecCrypto == Init /\ [][NextCrypto]_vars

\* C13: decrypting what was encrypted, with the key it was encrypted under,
\* returns exactly the name and the value that were encrypted.
C13_RoundTrip ==
  (cx.phase = "decrypted" /\ cx.decKey = cx.encKey) =>
    cx.result = [ok |-> TRUE, key |-> cx.name, value |-> cx.value]

\* C13 witness: a non-empty name and value came back from a round trip
C13_RoundTripDone ==
  /\ cx.phase = "decrypted" /\ cx.decKey = cx.encKey
  /\ cx.name # << >> /\ cx.value # << >> /\ cx.name # cx.value
  /\ cx.result.ok

\* C14: decrypting with any key other than the one used to encrypt fails, and
\* the failure is the one generic IntegrityFailure whatever the wrong key was.
C14_WrongKeyFails ==
  (cx.phase = "decrypted" /\ cx.decKey # cx.encKey) => cx.result = IntegrityFailure

\* C14 witness: a key from the wrong password and the same salt was refused
C14_WrongPasswordRefused ==
  /\ cx.phase = "decrypted"
  /\ cx.encKey = DeriveKey("CorrectHorseBattery9", 1)
  /\ cx.decKey = DeriveKey("WrongPassword", 1)
  /\ cx.name # << >>
  /\ cx.result = IntegrityFailure

\* ------------------------------------------------------- the browser's flows
\* useVaultStore((state) => state.cryptoKey)
ClientKey == vault[FlowTab].cryptoKey

\* { ...encrypted, isSecret }: the argument of createVariable
PayloadWithPlaintext(encrypted, key, value, isSecret) ==
  [keyEncrypted |-> [bytes |-> key, tag |-> << >>],
   valueEncrypted |-> [bytes |-> value, tag |-> << >>],
   ivKey |-> encrypted.ivKey, ivValue |-> encrypted.ivValue, isSecret |-> isSecret]

Payload(encrypted, key, value, isSecret) ==
  [keyEncrypted |-> encrypted.keyEncrypted, valueEncrypted |-> encrypted.valueEncrypted,
   ivKey |-> encrypted.ivKey, ivValue |-> encrypted.ivValue, isSecret |-> isSecret]

\* db.variable.create / db.globalVariable.create: the row stored for the data
CreateRowOneIv(scope, data) ==
  [scope |-> scope, keyEncrypted |-> data.keyEncrypted, valueEncrypted |-> data.valueEncrypted,
   ivKey |-> data.ivKey, ivValue |-> data.ivKey, isSecret |-> data.isSecret]

CreateRow(scope, data) ==
  [scope |-> scope, keyEncrypted |-> data.keyEncrypted, valueEncrypted |-> data.valueEncrypted,
   ivKey |-> data.ivKey, ivValue |-> data.ivValue, isSecret |-> data.isSecret]

\* tx.variable.update / tx.globalVariable.update of the rotation
UpdateRow(row, data) ==
  [row EXCEPT !.keyEncrypted = data.keyEncrypted, !.valueEncrypted = data.valueEncrypted,
              !.ivKey = data.ivKey, !.ivValue = data.ivValue]

\* the (key, iv) pairs of the two fields of a stored row
FieldIvs(row, cryptoKey) == <<<<cryptoKey.bits, row.ivKey>>, <<cryptoKey.bits, row.ivValue>>>>

\* encryptVariable, then createVariable / createGlobalVariable with the result
EncryptAndCreate(action, scope, entry, isSecret, cryptoKey) ==
  LET encrypted == EncryptVariable(entry.key, entry.value, cryptoKey, nextIv)
      data == Payload(encrypted, entry.key, entry.value, isSecret)
      row == CreateRow(scope, data)
  IN /\ nextIv' = nextIv + 2
     /\ call' = [action |-> action, scope |-> scope, data |-> data,
                 key |-> entry.key, value |-> entry.value, cryptoKey |-> cryptoKey]
     /\ records' = [records EXCEPT ![nextRecId] = row]
     /\ nextRecId' = nextRecId + 1
     /\ ivLog' = ivLog \o FieldIvs(row, cryptoKey)

CanCreate == nextRecId <= MaxRecords /\ nextIv + 1 <= MaxIvs

\* AddVariableDialog.handleSubmit
AddVariableSubmit(environmentId, entry, isSecret) ==
  /\ ClientKey # NoKey
  /\ job.kind = "none"
  /\ CanCreate
  /\ EncryptAndCreate("createVariable", environmentId, entry, isSecret, ClientKey)
  /\ UNCHANGED <<rotVars, tfaVars, users, audit, resp, cx, extVars, vault, job>>

\* AddGlobalDialog.handleSubmit
AddGlobalSubmit(entry, isSecret) ==
  /\ ClientKey # NoKey
  /\ job.kind = "none"
  /\ CanCreate
  /\ EncryptAndCreate("createGlobalVariable", GlobalScope, entry, isSecret, ClientKey)
  /\ UNCHANGED <<rotVars, tfaVars, users, audit, resp, cx, extVars, vault, job>>

\* isLikelySecret: the name contains one of the sensitive patterns
SensitivePatterns == {<<1, 2>>}
IsLikelySecret(key) ==
  \E pattern \in SensitivePatterns, o \in 1..Len(key) :
     /\ o + Len(pattern) - 1 <= Len(key)
     /\ SubSeq(key, o, o + Len(pattern) - 1) = pattern

\* the encrypt call was made but the server action threw: the IVs are spent
EncryptOnly ==
  /\ nextIv' = nextIv + 2
  /\ UNCHANGED <<records, nextRecId, call, ivLog>>

\* the files a user imports, parsed
ImportFiles ==
  {<<e>> : e \in Entries} \cup {f \in [1..2 -> Entries] : f[1] # f[2]}

\* ImportEnvDialog.handleImport up to the loop
ImportStart(environmentId, parsedVars) ==
  /\ ClientKey # NoKey /\ Len(parsedVars) # 0
  /\ job.kind = "none"
  /\ job' = [kind |-> "import", scope |-> environmentId,
             items |-> [n \in 1..Len(parsedVars) |->
                          [key |-> parsedVars[n].key, value |-> parsedVars[n].value,
                           isSecret |-> IsLikelySecret(parsedVars[n].key)]],
             i |-> 1, cryptoKey |-> ClientKey]
  /\ UNCHANGED <<rotVars, tfaVars, users, audit, resp, nextIv, cx, extVars, vault,
                 records, nextRecId, call, ivLog>>

\* the rest of the loop after item i, or the end of the handler
JobAdvance ==
  job' = IF job.i < Len(job.items) THEN [job EXCEPT !.i = job.i + 1] ELSE NoJob

\* one iteration of handleImport's loop; a failed item is counted and skipped
ImportStep(fails) ==
  /\ job.kind = "import"
  /\ nextIv + 1 <= MaxIvs
  /\ IF fails
     THEN EncryptOnly
     ELSE /\ nextRecId <= MaxRecords
          /\ EncryptAndCreate("createVariable", job.scope, job.items[job.i],
                              job.items[job.i].isSecret, job.cryptoKey)
  /\ JobAdvance
  /\ UNCHANGED <<rotVars, tfaVars, users, audit, resp, cx, extVars, vault>>

\* decryptEnvVariables: the decrypted variables of an environment, by id
DecryptedVars(envId) ==
  LET ids == SortedSeq({id \in 1..MaxRecords : records[id] # NoRow /\ records[id].scope = envId})
      dec(id) == DecryptVariable(records[id].keyEncrypted, records[id].valueEncrypted,
                                 records[id].ivKey, records[id].ivValue, ClientKey)
  IN IF \E n \in 1..Len(ids) : ~dec(ids[n]).ok
     THEN << >>
     ELSE [n \in 1..Len(ids) |->
             [key |-> dec(ids[n]).key, value |-> dec(ids[n]).value,
              isSecret |-> records[ids[n]].isSecret]]

\* CopyEnvironmentDialog.handleCopy up to the loop
CopyStart(sourceEnvId, targetEnvId) ==
  /\ ClientKey # NoKey /\ targetEnvId # sourceEnvId
  /\ Len(DecryptedVars(sourceEnvId)) # 0
  /\ job.kind = "none"
  /\ job' = [kind |-> "copy", scope |-> targetEnvId, items |-> DecryptedVars(sourceEnvId),
             i |-> 1, cryptoKey |-> ClientKey]
  /\ UNCHANGED <<rotVars, tfaVars, users, audit, resp, nextIv, cx, extVars, vault,
                 records, nextRecId, call, ivLog>>

\* one iteration of handleCopy's loop; a failure ends the copy
CopyStep(fails) ==
  /\ job.kind = "copy"
  /\ nextIv + 1 <= MaxIvs
  /\ IF fails
     THEN EncryptOnly /\ job' = NoJob
     ELSE /\ nextRecId <= MaxRecords
          /\ EncryptAndCreate("createVariable", job.scope, job.items[job.i],
                              job.items[job.i].isSecret, job.cryptoKey)
          /\ JobAdvance
  /\ UNCHANGED <<rotVars, tfaVars, users, audit, resp, cx, extVars, vault>>

\* deleteVariable from the project view
ClientDeleteVariable(id) ==
  /\ job.kind = "none"
  /\ records[id] # NoRow
  /\ records' = [records EXCEPT ![id] = NoRow]
  /\ call' = [NoCall EXCEPT !.action = "deleteVariable"]
  /\ UNCHANGED <<rotVars, tfaVars, users, audit, resp, nextIv, cx, extVars, vault,
                 nextRecId, job, ivLog>>

\* ------------------------------------------------ rotation, seen from the browser
RecIds == {id \in 1..MaxRecords : records[id] # NoRow}
Rank(id) == Cardinality({j \in RecIds : j < id})

\* re-encryption of one row under the new key, with IVs of its own
Reencrypt(id, oldKey, newKey) ==
  LET dec == DecryptVariable(records[id].keyEncrypted, records[id].valueEncrypted,
                             records[id].ivKey, records[id].ivValue, oldKey)
  IN EncryptVariable(dec.key, dec.value, newKey, nextIv + 2 * Rank(id))

\* rotateMasterPassword: decrypt everything with the old key, derive the new key
\* from the new password and a fresh salt, re-encrypt, and POST the new set,
\* which the transaction stores row by row
RotateVault(newPassword) ==
  LET oldKey == ClientKey
      newKey == DeriveKey(newPassword, nextSalt)
      ids == SortedSeq(RecIds)
  IN
  /\ oldKey # NoKey
  /\ job.kind = "none"
  /\ nextSalt <= MaxSalt
  /\ nextIv + 2 * Len(ids) - 1 <= MaxIvs
  /\ \A id \in RecIds :
        DecryptVariable(records[id].keyEncrypted, records[id].valueEncrypted,
                        records[id].ivKey, records[id].ivValue, oldKey).ok
  /\ records' = [id \in 1..MaxRecords |->
        IF id \in RecIds THEN UpdateRow(records[id], Reencrypt(id, oldKey, newKey))
        ELSE records[id]]
  /\ ivLog' = ivLog \o
        [n \in 1..(2 * Len(ids)) |->
           FieldIvs(records'[ids[(n + 1) \div 2]], newKey)[2 - (n % 2)]]
  /\ nextIv' = nextIv + 2 * Len(ids)
  /\ nextSalt' = nextSalt + 1
  /\ vault' = [vault EXCEPT ![FlowTab].cryptoKey = newKey]
  /\ call' = [NoCall EXCEPT !.action = "changeMasterPassword"]
  /\ UNCHANGED <<variables, globals, nextVarId, nextGlobalId, rot>>
  /\ UNCHANGED <<tfaVars, users, audit, resp, cx, extVars, nextRecId, job>>

\* the vault of the tab that runs the dialogs is unlocked
InitClient ==
  /\ users = InitUsers
  /\ InitRest
  /\ tokens = [id \in 1..MaxTokens |-> NoRow]
  /\ vault = [t \in VaultTabs |->
       IF t = FlowTab
       THEN [LockedVault EXCEPT !.state = "Unlocked",
               !.cryptoKey = DeriveKey(VaultPasswords[1], InitUsers["u1"].encryptionSalt)]
       ELSE LockedVault]

NextClient ==
  \/ \E environmentId \in ClientEnvs, entry \in Entries, isSecret \in BOOLEAN :
        AddVariableSubmit(environmentId, entry, isSecret)
  \/ \E entry \in Entries, isSecret \in BOOLEAN : AddGlobalSubmit(entry, isSecret)
  \/ \E environmentId \in ClientEnvs, parsedVars \in ImportFiles :
        ImportStart(environmentId, parsedVars)
  \/ \E fails \in BOOLEAN : ImportStep(fails)
  \/ \E sourceEnvId \in ClientEnvs, targetEnvId \in ClientEnvs :
        CopyStart(sourceEnvId, targetEnvId)
  \/ \E fails \in BOOLEAN : CopyStep(fails)
  \/ \E id \in 1..MaxRecords : ClientDeleteVariable(id)
  \/ \E n \in 1..Len(VaultPasswords) : RotateVault(VaultPasswords[n])

SpecClient == InitClient /\ [][NextClient]_vars

\* the server actions that create a stored variable
CreateActions == {"createVariable", "createGlobalVariable"}

\* C11: what the browser hands to createVariable / createGlobalVariable is
\* exactly the output of encryptVariable under the vault key plus the isSecret
\* flag (no field carries the typed name or value), and every stored row holds
\* fields that authenticate and decrypt under the vault key.
C11_OnlyCiphertextStored ==
  /\ call.action \in CreateActions =>
       /\ call.cryptoKey = ClientKey
       /\ DOMAIN call.data = {"keyEncrypted", "valueEncrypted", "ivKey", "ivValue", "isSecret"}
       /\ call.data = Payload(EncryptVariable(call.key, call.value, ClientKey, call.data.ivKey),
                              call.key, call.value, call.data.isSecret)
       /\ \E id \in 1..MaxRecords : records[id] = CreateRow(call.scope, call.data)
  /\ \A id \in 1..MaxRecords : records[id] # NoRow =>
       /\ DOMAIN records[id] =
            {"scope", "keyEncrypted", "valueEncrypted", "ivKey", "ivValue", "isSecret"}
       /\ DecryptVariable(records[id].keyEncrypted, records[id].valueEncrypted,
                          records[id].ivKey, records[id].ivValue, ClientKey).ok

\* a secret was stored for one environment and for another, as ciphertext
C11_CiphertextInBothEnvs ==
  /\ call.action = "createVariable" /\ call.key # << >> /\ call.data.isSecret
  /\ records[1] # NoRow /\ records[2] = CreateRow(call.scope, call.data)
  /\ records[1].scope # records[2].scope
  /\ DecryptVariable(records[2].keyEncrypted, records[2].valueEncrypted,
                     records[2].ivKey, records[2].ivValue, ClientKey).key = call.key

\* C15: no (key, IV) pair is used for two encrypted fields: the fields stored
\* by add, import, copy and rotation all have pairs of their own, the name and
\* the value of one row included, and a rotation stores no IV used before.
C15_NoIvReuse ==
  /\ \A i \in 1..Len(ivLog), j \in 1..Len(ivLog) : i # j =>
       /\ ivLog[i] # ivLog[j]
       /\ ivLog[i][2] # ivLog[j][2]
  /\ \A id \in 1..MaxRecords : records[id] # NoRow =>
       /\ records[id].ivKey # records[id].ivValue
       /\ \A other \in 1..MaxRecords : (other # id /\ records[other] # NoRow) =>
            {records[id].ivKey, records[id].ivValue}
              \cap {records[other].ivKey, records[other].ivValue} = {}

\* a rotation re-encrypted two stored rows
C15_RotatedTwoRows ==
  /\ call.action = "changeMasterPassword"
  /\ Cardinality(RecIds) = 2
  /\ Len(ivLog) = 8

\* ------------------------------------------------------------ the vault session
\* useVaultStore((state) => state.isUnlocked)
isUnlocked(tab) == vault[tab].state = "Unlocked"

\* the verifier blob an unlock probes: a field encrypted under the user's key
Verifier ==
  EncryptField(<<1>>, DeriveKey(VaultPasswords[1], InitUsers["u1"].encryptionSalt), 0)

\* the probe of unlock(password): derive the key, decrypt the verifier
ProbeKey(password) == DeriveKey(password, users["u1"].encryptionSalt)
ProbeOk(password) == DecryptField(Verifier, ProbeKey(password)).ok

OtherVars == <<rotVars, tfaVars, users, audit, resp, nextIv, cx, extVars, flowVars>>

\* an unlock that derives whatever is in flight
UnlockStartConcurrent(tab, password) ==
  /\ ~isUnlocked(tab)
  /\ vault' = [vault EXCEPT ![tab].state = "Unlocking",
                            ![tab].deriving = vault[tab].deriving + 1,
                            ![tab].pending = password, ![tab].report = ""]
  /\ UNCHANGED OtherVars

\* unlock(password) is called: a derivation starts unless one is in flight
UnlockStart(tab, password) ==
  /\ ~isUnlocked(tab)
  /\ IF vault[tab].state = "Unlocking"
     THEN vault' = [vault EXCEPT ![tab].report = "UnlockInProgress"]
     ELSE vault' = [vault EXCEPT ![tab].state = "Unlocking",
                                 ![tab].deriving = vault[tab].deriving + 1,
                                 ![tab].pending = password, ![tab].report = ""]
  /\ UNCHANGED OtherVars

\* an unlock that keeps the derived key without probing
UnlockFinishNoProbe(tab) ==
  /\ vault[tab].state = "Unlocking"
  /\ vault' = [vault EXCEPT ![tab] =
       [LockedVault EXCEPT !.state = "Unlocked",
                           !.cryptoKey = ProbeKey(vault[tab].pending),
                           !.report = "Unlocked"]]
  /\ UNCHANGED OtherVars

\* the derivation and the probe of the unlock in flight come back
UnlockFinish(tab) ==
  /\ vault[tab].state = "Unlocking"
  /\ vault' = [vault EXCEPT ![tab] =
       IF ProbeOk(vault[tab].pending)
       THEN [LockedVault EXCEPT !.state = "Unlocked",
                                !.cryptoKey = ProbeKey(vault[tab].pending),
                                !.report = "Unlocked"]
       ELSE [LockedVault EXCEPT !.report = "WrongPassword"]]
  /\ UNCHANGED OtherVars

\* a lock that leaves the key buffer alone
WipeKeepsKey(tab, why) ==
  [vault EXCEPT ![tab] = [LockedVault EXCEPT !.cryptoKey = vault[tab].cryptoKey,
                                             !.report = why]]

\* lock(): the key is zeroed and dropped, whatever the state
Wipe(tab, why) == [vault EXCEPT ![tab] = [LockedVault EXCEPT !.report = why]]

\* onClick={() => lock()}
Lock(tab) ==
  /\ vault' = Wipe(tab, "lock")
  /\ UNCHANGED OtherVars

\* the tab or the process goes away
Teardown(tab) ==
  /\ vault' = Wipe(tab, "teardown")
  /\ UNCHANGED OtherVars

\* a timer that stops one unit short of the window
TickStalls(tab) ==
  /\ isUnlocked(tab)
  /\ vault[tab].idle < IdleWindow - 1
  /\ vault' = [vault EXCEPT ![tab].idle = vault[tab].idle + 1]
  /\ UNCHANGED OtherVars

\* one unit of the inactivity window passes without a vault operation
Tick(tab) ==
  /\ isUnlocked(tab)
  /\ vault[tab].idle < IdleWindow
  /\ vault' = [vault EXCEPT ![tab].idle = vault[tab].idle + 1]
  /\ UNCHANGED OtherVars

\* the window is over: the session locks itself
IdleTimeout(tab) ==
  /\ isUnlocked(tab)
  /\ vault[tab].idle = IdleWindow
  /\ vault' = Wipe(tab, "IdleTimeout")
  /\ UNCHANGED OtherVars

\* a vault operation (an encryption or decryption with the held key)
VaultOperation(tab) ==
  /\ isUnlocked(tab)
  /\ vault' = [vault EXCEPT ![tab].idle = 0, ![tab].report = "operation"]
  /\ UNCHANGED OtherVars

NextVault ==
  \/ \E tab \in VaultTabs, n \in 1..Len(VaultPasswords) : UnlockStart(tab, VaultPasswords[n])
  \/ \E tab \in VaultTabs : UnlockFinish(tab)
  \/ \E tab \in VaultTabs : Lock(tab)
  \/ \E tab \in VaultTabs : Teardown(tab)
  \/ \E tab \in VaultTabs : Tick(tab)
  \/ \E tab \in VaultTabs : IdleTimeout(tab)
  \/ \E tab \in VaultTabs : VaultOperation(tab)

SpecVault == Init /\ [][NextVault]_vars

\* the timer runs: time passes and a due timeout fires
SpecVaultLive ==
  /\ Init /\ [][NextVault]_vars
  /\ \A tab \in VaultTabs : WF_vars(Tick(tab)) /\ WF_vars(IdleTimeout(tab))

\* C16: a session holds a key exactly when it is Unlocked; it starts Locked;
\* and a lock() from any state, be it the user's, the idle timeout's or a
\* teardown, leaves it Locked without a key.
C16_KeyIffUnlocked ==
  /\ \A tab \in VaultTabs : vault[tab] = LockedVault
  /\ [](\A tab \in VaultTabs : vault[tab].cryptoKey # NoKey <=> isUnlocked(tab))
  /\ [][\A tab \in VaultTabs :
          (Lock(tab) \/ Teardown(tab) \/ IdleTimeout(tab)) =>
             (vault'[tab].state = "Locked" /\ vault'[tab].cryptoKey = NoKey)]_vars

\* one session was locked by its user while another one holds its key
C16_LockedByUser ==
  /\ vault["tab1"].report = "lock" /\ vault["tab1"].state = "Locked"
  /\ vault["tab1"].cryptoKey = NoKey
  /\ isUnlocked("tab2") /\ vault["tab2"].cryptoKey # NoKey

\* C17: an unlock whose derived key fails the probe leaves the session Locked,
\* keeps no key and reports WrongPassword; a session becomes Unlocked only by
\* an unlock whose probe succeeded, and then holds the derived key.
C17_WrongPasswordStaysLocked ==
  [][\A tab \in VaultTabs :
       /\ (UnlockFinish(tab) /\ ~ProbeOk(vault[tab].pending)) =>
            /\ vault'[tab].state = "Locked"
            /\ vault'[tab].cryptoKey = NoKey
            /\ vault'[tab].report = "WrongPassword"
       /\ (~isUnlocked(tab) /\ vault'[tab].state = "Unlocked") =>
            /\ vault[tab].state = "Unlocking"
            /\ ProbeOk(vault[tab].pending)
            /\ vault'[tab].cryptoKey = ProbeKey(vault[tab].pending)]_vars

\* an unlock with the wrong password was refused
C17_UnlockRefused ==
  /\ vault["tab1"].report = "WrongPassword"
  /\ vault["tab1"].state = "Locked" /\ vault["tab1"].cryptoKey = NoKey

\* C18: no session ever has two key derivations in flight: an unlock() called
\* while one is in flight is rejected and changes nothing but the report.
C18_OneDerivation ==
  /\ [](\A tab \in VaultTabs :
          /\ vault[tab].deriving <= 1
          /\ vault[tab].deriving = 1 <=> vault[tab].state = "Unlocking")
  /\ [][\A tab \in VaultTabs, n \in 1..Len(VaultPasswords) :
          (vault[tab].state = "Unlocking" /\ UnlockStart(tab, VaultPasswords[n])) =>
             vault' = [vault EXCEPT ![tab].report = "UnlockInProgress"]]_vars

\* a second unlock() arrived while the first was in flight
C18_SecondUnlockRejected ==
  /\ vault["tab1"].state = "Unlocking" /\ vault["tab1"].report = "UnlockInProgress"
  /\ vault["tab1"].deriving = 1

\* C19: an Unlocked session without vault operations is Locked once the
\* inactivity window is over; a vault operation starts the window afresh, and
\* the timeout locks only a session whose whole window passed without one.
C19_IdleTimeoutLocks ==
  /\ \A tab \in VaultTabs : []<>(~isUnlocked(tab) \/ vault[tab].idle = 0)
  /\ [][\A tab \in VaultTabs :
          /\ VaultOperation(tab) => (vault'[tab].idle = 0 /\ vault'[tab].state = "Unlocked")
          /\ IdleTimeout(tab) => vault[tab].idle = IdleWindow
          /\ (isUnlocked(tab) /\ vault'[tab].report = "IdleTimeout"
                /\ vault[tab].report # "IdleTimeout") => vault[tab].idle = IdleWindow]_vars

\* the timeout locked a session
C19_TimedOut ==
  /\ vault["tab1"].report = "IdleTimeout"
  /\ vault["tab1"].state = "Locked" /\ vault["tab1"].cryptoKey = NoKey

\* C27 (as claimed): the commit of a rotation changes the ciphertext only of
\* variables and global variables owned by the user of the session; a record
\* of another user named in the submitted lists is left as it was.
C27_RotationTouchesOwnRecordsOnly ==
  [][ (rot.phase = "tx" /\ rot'.phase = "committed") =>
        /\ \A id \in 1..MaxVars :
              (variables[id] # NoRow /\ EnvUser(variables[id].environmentId) # rot.user)
                => variables'[id] = variables[id]
        /\ \A id \in 1..MaxGlobals :
              (globals[id] # NoRow /\ globals[id].userId # rot.user)
                => globals'[id] = globals[id]
    ]_vars

\* C28 (as claimed): a stored hash authorizes one successful verification, also
\* when submissions interleave: a request succeeds only if the hash of its code
\* is still stored when it finishes, and after any request has finished the
\* stored list holds no hash of a code verified before.
C28_OneSuccessPerStoredHash ==
  [][ \A r \in Reqs :
        IsFinish(r) =>
          LET u == bk[r].user IN
          /\ resp'.status = 200 =>
               Bcrypt(NormalizeCode(bk[r].code)) \in Range(users[u].twoFactorBackupCodes)
          /\ \A c \in used'[u] : Bcrypt(c) \notin Range(users'[u].twoFactorBackupCodes)
    ]_vars

\* ------------------------------------------------- the routes that log an audit
\* the change of master password of a user without records, one backup-code
\* submission at a time and the 2FA disable, each followed by its logAudit call
NextAudit ==
  \/ \E u \in RotatingUsers : RotSnapshot(u)
  \/ \E cur \in MasterPws, new \in MasterPws : RotPost(cur, new, {}, {})
  \/ RotTxUserUpdate
  \/ RotTxCommit
  \/ RotTxFault
  \/ \E u \in EnrollingUsers, code \in BackupCandidates : BackupRead(1, u, code)
  \/ BackupFinish(1)
  \/ \E u \in Sessions, password \in AccountPws \cup {""} : Disable2FA(u, password)

SpecAudit == InitBackup /\ [][NextAudit]_vars

\* C26: a logAudit call never throws, so a failed audit write changes neither
\* the answer nor the effects of the operation: a committed rotation answers
\* 200 with the new salt stored, a refused one 401, a matching backup code 200
\* with the code removed, a wrong one 401, a 2FA disable 200 with 2FA off.
C26_AuditFailureSwallowed ==
  [][ /\ ~audit'.threw
      /\ (rot.phase = "tx" /\ rot'.phase = "committed") =>
           /\ resp'.status = 200
           /\ users'[rot.user].encryptionSalt = rot.body.newSalt
      /\ (rot.phase = "snap" /\ rot'.phase = "rejected"
            /\ users[rot.user].masterPassword # NoHash) => resp'.status = 401
      /\ \A r \in Reqs :
           IsFinish(r) =>
             LET v == VerifyBackupCode(bk[r].code, bk[r].codes) IN
             IF v.index = -1
             THEN resp'.status = 401 /\ users' = users
             ELSE /\ resp'.status = 200
                  /\ users'[bk[r].user].twoFactorBackupCodes =
                       RemoveBackupCode(bk[r].codes, v.index)
      /\ \A u \in Users :
           (users[u].twoFactorEnabled /\ ~users'[u].twoFactorEnabled) =>
             (resp'.op = "2fa/disable" /\ resp'.status = 200)
    ]_vars

\* the audit write failed after a rotation had been committed
C26_CommittedWithoutAuditRow ==
  /\ audit.action = "CHANGE_MASTER_PASSWORD" /\ audit.success /\ ~audit.written
  /\ rot.phase = "committed" /\ resp.status = 200
  /\ users[rot.user].encryptionSalt >= FirstFreshSalt

\* ------------------------------------------------------- team server actions
TeamRoles == {"ADMIN", "MEMBER", "VIEWER"}
BaseVars == <<rotVars, tfaVars, users, audit, resp, nextIv, cx, vault, flowVars,
             tokenVars, apiResp, restVars>>

\* a call of a team server action: its teamId and the error it threw, if any
TeamCall(op, teamId, error) == [op |-> op, teamId |-> teamId, error |-> error]

\* requireTeamAdminAccess: the team, if the user owns it or is an ADMIN member
RequireTeamAdminAccess(teamId, userId) ==
  /\ teamId \in 1..MaxTeams
  /\ teams[teamId] # NoRow
  /\ \/ teams[teamId].ownerId = userId
     \/ \E m \in 1..MaxMembers :
          /\ members[m] # NoRow
          /\ members[m].teamId = teamId
          /\ members[m].userId = userId
          /\ members[m].role = "ADMIN"

\* createTeam: the team and its owner's ADMIN membership in one nested create
CreateTeam(u) ==
  /\ nextTeamId <= MaxTeams /\ nextMemberId <= MaxMembers
  /\ IF u = NULL
     THEN /\ teamCall' = TeamCall("createTeam", 0, "Unauthorized")
          /\ UNCHANGED <<teams, members, nextTeamId, nextMemberId>>
     ELSE /\ teams' = [teams EXCEPT ![nextTeamId] = [ownerId |-> u]]
          /\ members' = [members EXCEPT ![nextMemberId] =
                [teamId |-> nextTeamId, userId |-> u, role |-> "ADMIN"]]
          /\ nextTeamId' = nextTeamId + 1
          /\ nextMemberId' = nextMemberId + 1
          /\ teamCall' = TeamCall("createTeam", nextTeamId, "")
  /\ UNCHANGED BaseVars

\* inviteMember (invited: the user with the given email, or none)
InviteMember(u, teamId, invited, role) ==
  /\ nextMemberId <= MaxMembers
  /\ LET error ==
           IF u = NULL THEN "Unauthorized"
           ELSE IF ~RequireTeamAdminAccess(teamId, u)
           THEN "Team not found or you don't have permission"
           ELSE IF invited = NULL THEN "User not found with this email"
           ELSE IF \E m \in 1..MaxMembers :
                     /\ members[m] # NoRow
                     /\ members[m].teamId = teamId /\ members[m].userId = invited
           THEN "User is already a member of this team"
           ELSE ""
     IN /\ teamCall' = TeamCall("inviteMember", teamId, error)
        /\ IF error = ""
           THEN /\ members' = [members EXCEPT ![nextMemberId] =
                      [teamId |-> teamId, userId |-> invited, role |-> role]]
                /\ nextMemberId' = nextMemberId + 1
           ELSE UNCHANGED <<members, nextMemberId>>
  /\ UNCHANGED <<teams, nextTeamId>>
  /\ UNCHANGED BaseVars

\* removeMember
RemoveMember(u, teamId, memberId) ==
  /\ LET error ==
           IF u = NULL THEN "Unauthorized"
           ELSE IF ~RequireTeamAdminAccess(teamId, u)
           THEN "Team not found or you don't have permission"
           ELSE IF members[memberId] = NoRow THEN "Member not found"
           ELSE IF members[memberId].userId = teams[teamId].ownerId
           THEN "Cannot remove the team owner"
           ELSE ""
     IN /\ teamCall' = TeamCall("removeMember", teamId, error)
        /\ IF error = ""
           THEN members' = [members EXCEPT ![memberId] = NoRow]
           ELSE UNCHANGED members
  /\ UNCHANGED <<teams, nextTeamId, nextMemberId>>
  /\ UNCHANGED BaseVars

\* updateMemberRole
UpdateMemberRole(u, teamId, memberId, role) ==
  /\ LET error ==
           IF u = NULL THEN "Unauthorized"
           ELSE IF ~RequireTeamAdminAccess(teamId, u)
           THEN "Team not found or you don't have permission"
           ELSE IF members[memberId] = NoRow THEN "Failed to update member role"
           ELSE ""
     IN /\ teamCall' = TeamCall("updateMemberRole", teamId, error)
        /\ IF error = ""
           THEN members' = [members EXCEPT ![memberId].role = role]
           ELSE UNCHANGED members
  /\ UNCHANGED <<teams, nextTeamId, nextMemberId>>
  /\ UNCHANGED BaseVars

NextTeams ==
  \/ \E u \in Sessions : CreateTeam(u)
  \/ \E u \in Sessions, teamId \in 1..MaxTeams, invited \in Users \cup {NULL},
        role \in TeamRoles : InviteMember(u, teamId, invited, role)
  \/ \E u \in Sessions, teamId \in 1..MaxTeams, memberId \in 1..MaxMembers :
        RemoveMember(u, teamId, memberId)
  \/ \E u \in Sessions, teamId \in 1..MaxTeams, memberId \in 1..MaxMembers,
        role \in TeamRoles : UpdateMemberRole(u, teamId, memberId, role)

SpecTeams == Init /\ [][NextTeams]_vars

\* C25 (as claimed): every existing team has a membership row of its owner.
C25_OwnerStaysMember ==
  \A t \in 1..MaxTeams :
    teams[t] # NoRow =>
      \E m \in 1..MaxMembers :
        /\ members[m] # NoRow
        /\ members[m].teamId = t
        /\ members[m].userId = teams[t].ownerId

\* C29 (as claimed): a membership is deleted or given another role only by a
\* call whose teamId is the team of that membership.
C29_MemberChangesStayInTeam ==
  [][ \A m \in 1..MaxMembers :
        (members[m] # NoRow /\ members'[m] # members[m]) =>
          /\ teamCall'.op \in {"removeMember", "updateMemberRole"}
          /\ teamCall'.teamId = members[m].teamId
    ]_vars

\* ------------------------------------------------------------- API tokens
NoDate == [isNull |-> TRUE]
Date(t) == [isNull |-> FALSE, time |-> t]

\* generateToken: "sb_" and 32 random bytes (n: the value drawn)
GenerateToken(n) == [prefix |-> "sb_", random |-> n]

\* hashToken: SHA-256, distinct for distinct tokens
HashToken(token) == [sha256 |-> token]

ApiPermissions == {"READ", "WRITE"}
\* permissions?: string[] is the empty sequence when undefined, otherwise the
\* one-element sequence holding the list
Undefined2 == << >>
Defined(list) == <<list>>

\* hasPermission
HasPermissionExact(permissions, required) ==
  IF permissions = Undefined2 THEN FALSE
  ELSE required \in permissions[1]

HasPermission(permissions, required) ==
  IF permissions = Undefined2 THEN FALSE
  ELSE IF required = "READ"
  THEN "READ" \in permissions[1] \/ "WRITE" \in permissions[1]
  ELSE required \in permissions[1]

\* the stored row with the given hash, if any
TokenIdOf(tokenHash) ==
  IF \E id \in DOMAIN tokens : tokens[id] # NoRow /\ tokens[id].tokenHash = tokenHash
  THEN CHOOSE id \in DOMAIN tokens : tokens[id] # NoRow /\ tokens[id].tokenHash = tokenHash
  ELSE 0

\* validateApiToken without the expiry check
ValidateApiTokenNoExpiry(token) ==
  IF token.prefix # "sb_" THEN [valid |-> FALSE, error |-> "Invalid token format", id |-> 0]
  ELSE LET id == TokenIdOf(HashToken(token)) IN
       IF id = 0 THEN [valid |-> FALSE, error |-> "Token not found", id |-> 0]
       ELSE [valid |-> TRUE, userId |-> tokens[id].userId,
             permissions |-> tokens[id].permissions, id |-> id]

\* validateApiToken: format, lookup by hash, expiry (id: the row whose
\* lastUsedAt it then updates)
ValidateApiToken(token) ==
  IF token.prefix # "sb_" THEN [valid |-> FALSE, error |-> "Invalid token format", id |-> 0]
  ELSE LET id == TokenIdOf(HashToken(token)) IN
       IF id = 0 THEN [valid |-> FALSE, error |-> "Token not found", id |-> 0]
       ELSE IF ~tokens[id].expiresAt.isNull /\ apiNow > tokens[id].expiresAt.time
       THEN [valid |-> FALSE, error |-> "Token expired", id |-> 0]
       ELSE [valid |-> TRUE, userId |-> tokens[id].userId,
             permissions |-> tokens[id].permissions, id |-> id]

\* the Authorization headers clients send: none, another scheme, a token of
\* another format, every token that can be issued and one that never is
NoHeader == [scheme |-> "none"]
Bearer(token) == [scheme |-> "Bearer", token |-> token]
Headers ==
  {NoHeader, [scheme |-> "Basic", token |-> GenerateToken(1)],
   Bearer([prefix |-> "xx_", random |-> 1])}
    \cup {Bearer(GenerateToken(n)) : n \in 1..(MaxTokens + 1)}

\* authenticateApiRequest: the ApiAuthResult
AuthenticateApiRequest(header) ==
  IF header.scheme = "none"
  THEN [authorized |-> FALSE, error |-> "Missing Authorization header"]
  ELSE IF header.scheme # "Bearer"
  THEN [authorized |-> FALSE, error |-> "Invalid Authorization format. Use: Bearer <token>"]
  ELSE LET validation == ValidateApiToken(header.token) IN
       IF ~validation.valid
       THEN [authorized |-> FALSE, error |-> validation.error]
       ELSE [authorized |-> TRUE, userId |-> validation.userId,
             permissions |-> validation.permissions]

\* db.apiToken.update({ data: { lastUsedAt: new Date() } }) of a valid token
Touched(header) ==
  IF header.scheme = "Bearer" /\ ValidateApiToken(header.token).valid
  THEN [tokens EXCEPT ![ValidateApiToken(header.token).id].lastUsedAt = Date(apiNow)]
  ELSE tokens

ApiResp(op, auth, status, error, body) ==
  [op |-> op, auth |-> auth, status |-> status, error |-> error, body |-> body]

KeepVars == <<rotVars, tfaVars, users, resp, nextIv, cx, vault, flowVars, teamVars>>

\* createApiToken
CreateApiToken(u, permissions, expiresAt) ==
  /\ nextTokenId <= MaxTokens
  /\ IF u = NULL
     THEN /\ apiResp' = ApiResp("createApiToken", NoAuth, 0, "Unauthorized", << >>)
          /\ UNCHANGED <<tokens, nextTokenId, audit>>
     ELSE /\ tokens' = [tokens EXCEPT ![nextTokenId] =
                [userId |-> u, tokenHash |-> HashToken(GenerateToken(nextTokenId)),
                 permissions |-> permissions, expiresAt |-> expiresAt,
                 lastUsedAt |-> NoDate]]
          /\ nextTokenId' = nextTokenId + 1
          /\ audit' \in LogAudit([userId |-> u, action |-> "CREATE_VARIABLE", success |-> TRUE])
          /\ apiResp' = ApiResp("createApiToken", NoAuth, 0, "", <<GenerateToken(nextTokenId)>>)
  /\ UNCHANGED <<apiNow, restVars>>
  /\ UNCHANGED KeepVars

\* deleteApiToken
DeleteApiToken(u, tokenId) ==
  /\ IF u = NULL
     THEN /\ apiResp' = ApiResp("deleteApiToken", NoAuth, 0, "Unauthorized", << >>)
          /\ UNCHANGED <<tokens, audit>>
     ELSE IF tokens[tokenId] = NoRow \/ tokens[tokenId].userId # u
     THEN /\ apiResp' = ApiResp("deleteApiToken", NoAuth, 0, "Token not found", << >>)
          /\ UNCHANGED <<tokens, audit>>
     ELSE /\ tokens' = [tokens EXCEPT ![tokenId] = NoRow]
          /\ audit' \in LogAudit([userId |-> u, action |-> "DELETE_VARIABLE", success |-> TRUE])
          /\ apiResp' = ApiResp("deleteApiToken", NoAuth, 0, "", << >>)
  /\ UNCHANGED <<nextTokenId, apiNow, restVars>>
  /\ UNCHANGED KeepVars

\* time passes
ApiClockTick ==
  /\ apiNow < MaxApiTime
  /\ apiNow' = apiNow + 1
  /\ UNCHANGED <<tokens, nextTokenId, apiResp, restVars, audit>>
  /\ UNCHANGED KeepVars

\* a route authenticates a request (body: the header it carried)
Authenticate(header) ==
  /\ apiResp' = ApiResp("authenticate", AuthenticateApiRequest(header), 0, "", <<header>>)
  /\ tokens' = Touched(header)
  /\ UNCHANGED <<nextTokenId, apiNow, restVars, audit>>
  /\ UNCHANGED KeepVars

NextTokens ==
  \/ \E u \in Sessions, permissions \in {{"READ"}, ApiPermissions},
        expiresAt \in {NoDate} \cup {Date(t) : t \in 0..(MaxApiTime - 1)} :
        CreateApiToken(u, permissions, expiresAt)
  \/ \E u \in Sessions, tokenId \in 1..MaxTokens : DeleteApiToken(u, tokenId)
  \/ ApiClockTick
  \/ \E header \in Headers : Authenticate(header)

SpecTokens == Init /\ [][NextTokens]_vars

\* C22: a request is authorized only if it carries "Bearer sb_..." with a
\* token whose hash is stored at that moment and whose expiry, if set, has not
\* passed, and it is bound to the user of that row; so a token that was deleted
\* or has expired authorizes no later request.
C22_OnlyStoredUnexpiredTokens ==
  [][ \A header \in Headers :
        (Authenticate(header) /\ apiResp'.auth.authorized) =>
          /\ header.scheme = "Bearer" /\ header.token.prefix = "sb_"
          /\ \E id \in DOMAIN tokens :
               /\ tokens[id] # NoRow
               /\ tokens[id].tokenHash = HashToken(header.token)
               /\ tokens[id].expiresAt.isNull \/ apiNow <= tokens[id].expiresAt.time
               /\ apiResp'.auth.userId = tokens[id].userId
    ]_vars

\* a token that had been used is refused once it has expired
C22_ExpiredTokenRefused ==
  /\ apiResp.op = "authenticate" /\ ~apiResp.auth.authorized
  /\ apiResp.auth.error = "Token expired"
  /\ \E id \in DOMAIN tokens :
       /\ tokens[id] # NoRow
       /\ apiResp.body = <<Bearer(GenerateToken(id))>>
       /\ ~tokens[id].lastUsedAt.isNull

\* -------------------------------------------- REST API v1 and server actions
\* project.userId and environment.projectId of the seeded projects
ProjectUser(id) == IF id = "p1" THEN "u1" ELSE "u2"
EnvProject(envId) == IF envId = "e1" THEN "p1" ELSE "p2"

\* the tokens issued before the requests: a READ-only token of the first user
\* and a READ and WRITE token of the second
ApiTokenRows ==
  <<[userId |-> "u1", tokenHash |-> HashToken(GenerateToken(1)),
     permissions |-> {"READ"}, expiresAt |-> NoDate, lastUsedAt |-> NoDate],
    [userId |-> "u2", tokenHash |-> HashToken(GenerateToken(2)),
     permissions |-> ApiPermissions, expiresAt |-> NoDate, lastUsedAt |-> NoDate]>>

\* the headers of the requests: every issued token and one never issued
RestHeaders == {Bearer(GenerateToken(n)) : n \in 0..Len(ApiTokenRows)}

\* an HTTP response: status, error message and the variables in its data
Response(op, status, error, rows) == ApiResp(op, NoAuth, status, error, rows)

\* the encrypted fields of a variable; MissingFields lacks a required one
Ciphertexts == {"c1", "c2"}
MissingFields == "missing"
\* request bodies of PUT: arrays of variables, and a body whose "variables"
\* is a JSON string
NotArray == <<"not an array">>
PutBodies ==
  {<< >>, <<"c1">>, <<"c2", "c1">>, <<"c1", MissingFields>>, NotArray}

\* the variable rows of an environment, by id
RowsOf(envId) ==
  {i \in 1..MaxApiVars : apiVars[i] # NoRow /\ apiVars[i].environmentId = envId}

\* db.environment.findFirst({ where: { id: envId, projectId: id, project: { userId } } })
EnvironmentFound(id, envId, userId) ==
  id \in projects /\ EnvProject(envId) = id /\ ProjectUser(id) = userId

\* db.project.findFirst({ where: { id, userId } })
ProjectFound(id, userId) == id \in projects /\ ProjectUser(id) = userId

\* the 401 and 403 answers every endpoint gives before it does anything else
Refusal(auth, required) ==
  IF ~auth.authorized THEN [status |-> 401, error |-> auth.error]
  ELSE IF ~HasPermission(Defined(auth.permissions), required)
  THEN [status |-> 403, error |-> "Insufficient permissions"]
  ELSE [status |-> 200, error |-> ""]

RestKeep == <<KeepVars, audit, nextTokenId, apiNow>>

\* a row lock held by the open transaction of a bulk replace
RowLocked(i) == put.phase = "tx" /\ i \in put.deleted

\* GET /api/v1/projects/[id]/environments/[envId]/variables
GetVariables(header, id, envId) ==
  LET auth == AuthenticateApiRequest(header)
      refusal == Refusal(auth, "READ")
  IN /\ tokens' = Touched(header)
     /\ apiResp' =
          IF refusal.status # 200
          THEN Response("GET", refusal.status, refusal.error, << >>)
          ELSE IF ~EnvironmentFound(id, envId, auth.userId)
          THEN Response("GET", 404, "Environment not found", << >>)
          ELSE Response("GET", 200, "",
                       <<{apiVars[i] : i \in RowsOf(envId)}>>)
     /\ UNCHANGED restVars
     /\ UNCHANGED RestKeep

\* POST /api/v1/projects/[id]/environments/[envId]/variables
PostVariable(header, id, envId, data) ==
  LET auth == AuthenticateApiRequest(header)
      refusal == Refusal(auth, "WRITE")
  IN /\ (refusal.status = 200 /\ data # MissingFields
           /\ EnvironmentFound(id, envId, auth.userId))
          => nextApiVarId + Len(put.variables) <= MaxApiVars
     /\ tokens' = Touched(header)
     /\ IF refusal.status # 200
        THEN /\ apiResp' = Response("POST", refusal.status, refusal.error, << >>)
             /\ UNCHANGED <<apiVars, nextApiVarId>>
        ELSE IF data = MissingFields
        THEN /\ apiResp' = Response("POST", 400, "Missing required encrypted fields", << >>)
             /\ UNCHANGED <<apiVars, nextApiVarId>>
        ELSE IF ~EnvironmentFound(id, envId, auth.userId)
        THEN /\ apiResp' = Response("POST", 404, "Environment not found", << >>)
             /\ UNCHANGED <<apiVars, nextApiVarId>>
        ELSE /\ apiVars' = [apiVars EXCEPT ![nextApiVarId] =
                              [environmentId |-> envId, data |-> data]]
             /\ nextApiVarId' = nextApiVarId + 1
             /\ apiResp' = Response("POST", 201, "",
                                   <<{apiVars'[nextApiVarId]}>>)
     /\ UNCHANGED <<projects, put>>
     /\ UNCHANGED RestKeep

\* tx.variable.deleteMany({ where: { environmentId: envId } }) written straight
\* to the table
DeleteManyDirect(envId) ==
  [i \in 1..MaxApiVars |-> IF i \in RowsOf(envId) THEN NoRow ELSE apiVars[i]]

\* tx.variable.deleteMany({ where: { environmentId: envId } }): the table as
\* other requests see it while the transaction is open
DeleteMany(envId) == apiVars

\* PUT /api/v1/projects/[id]/environments/[envId]/variables, up to the
\* deleteMany inside db.$transaction
PutBegin(header, id, envId, submitted) ==
  LET auth == AuthenticateApiRequest(header)
      refusal == Refusal(auth, "WRITE")
  IN /\ put.phase = "none"
     /\ (refusal.status = 200 /\ submitted # NotArray
           /\ EnvironmentFound(id, envId, auth.userId))
          => nextApiVarId + Len(submitted) - 1 <= MaxApiVars
     /\ tokens' = Touched(header)
     /\ IF refusal.status # 200
        THEN /\ apiResp' = Response("PUT", refusal.status, refusal.error, << >>)
             /\ UNCHANGED <<apiVars, put>>
        ELSE IF submitted = NotArray
        THEN /\ apiResp' = Response("PUT", 400, "Variables must be an array", << >>)
             /\ UNCHANGED <<apiVars, put>>
        ELSE IF ~EnvironmentFound(id, envId, auth.userId)
        THEN /\ apiResp' = Response("PUT", 404, "Environment not found", << >>)
             /\ UNCHANGED <<apiVars, put>>
        ELSE /\ put' = [phase |-> "tx", id |-> id, envId |-> envId,
                        variables |-> submitted, deleted |-> RowsOf(envId)]
             /\ apiVars' = DeleteMany(envId)
             /\ UNCHANGED apiResp
     /\ UNCHANGED <<projects, nextApiVarId>>
     /\ UNCHANGED RestKeep

\* the ids createMany gives the submitted variables
CreatedIds == nextApiVarId..(nextApiVarId + Len(put.variables) - 1)

\* PUT, the rest: createMany and the commit, or the rollback when createMany
\* or the database throws
PutFinish(fault) ==
  /\ put.phase = "tx"
  /\ IF fault \/ \E k \in 1..Len(put.variables) : put.variables[k] = MissingFields
     THEN /\ UNCHANGED <<apiVars, nextApiVarId>>
          /\ apiResp' = Response("PUT", 500, "Failed to update variables", << >>)
     ELSE /\ apiVars' = [i \in 1..MaxApiVars |->
                           IF i \in put.deleted THEN NoRow
                           ELSE IF i \in CreatedIds
                           THEN [environmentId |-> put.envId,
                                 data |-> put.variables[i - nextApiVarId + 1]]
                           ELSE apiVars[i]]
          /\ nextApiVarId' = nextApiVarId + Len(put.variables)
          /\ apiResp' = Response("PUT", 200, "", << >>)
  /\ put' = NoPut
  /\ UNCHANGED <<projects, tokens>>
  /\ UNCHANGED RestKeep

\* GET /api/v1/projects/[id]
GetProject(header, id) ==
  LET auth == AuthenticateApiRequest(header)
      refusal == Refusal(auth, "READ")
  IN /\ tokens' = Touched(header)
     /\ apiResp' =
          IF refusal.status # 200
          THEN Response("GET project", refusal.status, refusal.error, << >>)
          ELSE IF ~ProjectFound(id, auth.userId)
          THEN Response("GET project", 404, "Project not found", << >>)
          ELSE Response("GET project", 200, "",
                        <<{apiVars[i] : i \in {j \in 1..MaxApiVars :
                             apiVars[j] # NoRow
                             /\ EnvProject(apiVars[j].environmentId) = id}}>>)
     /\ UNCHANGED restVars
     /\ UNCHANGED RestKeep

\* DELETE /api/v1/projects/[id]; the schema decides whether db.project.delete
\* takes the environments and variables along (cascade) or is refused by the
\* database (restrict)
DeleteProject(header, id, restrict) ==
  LET auth == AuthenticateApiRequest(header)
      refusal == Refusal(auth, "WRITE")
  IN /\ tokens' = Touched(header)
     /\ IF refusal.status # 200
        THEN /\ apiResp' = Response("DELETE", refusal.status, refusal.error, << >>)
             /\ UNCHANGED <<projects, apiVars>>
        ELSE IF ~ProjectFound(id, auth.userId)
        THEN /\ apiResp' = Response("DELETE", 404, "Project not found", << >>)
             /\ UNCHANGED <<projects, apiVars>>
        ELSE IF restrict
        THEN /\ apiResp' = Response("DELETE", 500, "Failed to delete project", << >>)
             /\ UNCHANGED <<projects, apiVars>>
        ELSE /\ put.phase = "tx" => put.id # id
             /\ projects' = projects \ {id}
             /\ apiVars' = [i \in 1..MaxApiVars |->
                              IF apiVars[i] # NoRow
                                 /\ EnvProject(apiVars[i].environmentId) = id
                              THEN NoRow ELSE apiVars[i]]
             /\ apiResp' = Response("DELETE", 200, "", << >>)
     /\ UNCHANGED <<nextApiVarId, put>>
     /\ UNCHANGED RestKeep

\* requireEnvironmentOwnership: whether it returns
RequireEnvironmentOwnership(environmentId, userId) ==
  EnvProject(environmentId) \in projects /\ ProjectUser(EnvProject(environmentId)) = userId

\* requireVariableOwnership without the comparison of project.userId
RequireVariableExists(variableId, userId) == apiVars[variableId] # NoRow

\* requireVariableOwnership: whether it returns
RequireVariableOwnership(variableId, userId) ==
  /\ apiVars[variableId] # NoRow
  /\ ProjectUser(EnvProject(apiVars[variableId].environmentId)) = userId

\* what a server action returned or threw
Thrown(op, error) == ApiResp(op, NoAuth, 0, error, << >>)

\* createVariable (server action; u: the session's user)
ServerCreateVariable(u, environmentId, data) ==
  /\ (u # NULL /\ RequireEnvironmentOwnership(environmentId, u))
       => nextApiVarId + Len(put.variables) <= MaxApiVars
  /\ IF u = NULL
     THEN /\ apiResp' = Thrown("createVariable", "Unauthorized")
          /\ UNCHANGED <<apiVars, nextApiVarId>>
     ELSE IF ~RequireEnvironmentOwnership(environmentId, u)
     THEN /\ apiResp' = Thrown("createVariable", "Environment not found")
          /\ UNCHANGED <<apiVars, nextApiVarId>>
     ELSE /\ apiVars' = [apiVars EXCEPT ![nextApiVarId] =
                           [environmentId |-> environmentId, data |-> data]]
          /\ nextApiVarId' = nextApiVarId + 1
          /\ apiResp' = Thrown("createVariable", "")
  /\ UNCHANGED <<projects, put, tokens>>
  /\ UNCHANGED RestKeep

\* updateVariable (server action)
ServerUpdateVariable(u, variableId, data) ==
  /\ IF u = NULL
     THEN /\ apiResp' = Thrown("updateVariable", "Unauthorized")
          /\ UNCHANGED apiVars
     ELSE IF ~RequireVariableOwnership(variableId, u)
     THEN /\ apiResp' = Thrown("updateVariable", "Variable not found")
          /\ UNCHANGED apiVars
     ELSE /\ ~RowLocked(variableId)
          /\ apiVars' = [apiVars EXCEPT ![variableId].data = data]
          /\ apiResp' = Thrown("updateVariable", "")
  /\ UNCHANGED <<projects, nextApiVarId, put, tokens>>
  /\ UNCHANGED RestKeep

\* deleteVariable (server action)
ServerDeleteVariable(u, variableId) ==
  /\ IF u = NULL
     THEN /\ apiResp' = Thrown("deleteVariable", "Unauthorized")
          /\ UNCHANGED apiVars
     ELSE IF ~RequireVariableOwnership(variableId, u)
     THEN /\ apiResp' = Thrown("deleteVariable", "Variable not found")
          /\ UNCHANGED apiVars
     ELSE /\ ~RowLocked(variableId)
          /\ apiVars' = [apiVars EXCEPT ![variableId] = NoRow]
          /\ apiResp' = Thrown("deleteVariable", "")
  /\ UNCHANGED <<projects, nextApiVarId, put, tokens>>
  /\ UNCHANGED RestKeep

InitApi ==
  /\ users = InitUsers
  /\ InitRest
  /\ vault = [t \in VaultTabs |-> LockedVault]
  /\ tokens = ApiTokenRows

\* the REST endpoints
NextApi ==
  \/ \E header \in RestHeaders, id \in ApiProjects, envId \in Envs :
       GetVariables(header, id, envId)
  \/ \E header \in RestHeaders, id \in ApiProjects, envId \in Envs,
        data \in Ciphertexts \cup {MissingFields} :
       PostVariable(header, id, envId, data)
  \/ \E header \in RestHeaders, id \in ApiProjects, envId \in Envs,
        submitted \in PutBodies :
       PutBegin(header, id, envId, submitted)
  \/ \E fault \in BOOLEAN : PutFinish(fault)
  \/ \E header \in RestHeaders, id \in ApiProjects : GetProject(header, id)
  \/ \E header \in RestHeaders, id \in ApiProjects, restrict \in BOOLEAN :
       DeleteProject(header, id, restrict)

SpecApi == InitApi /\ [][NextApi]_vars

\* what the requests of the ownership runs carry: new variables hold the first
\* ciphertext, updates write the second
CreatedData == {"c1"}
PostedData == CreatedData \cup {MissingFields}
UpdatedData == Ciphertexts \ CreatedData

\* the variable server actions next to the endpoints that read, create and
\* delete single records
NextOwnership ==
  \/ \E header \in RestHeaders, id \in ApiProjects, envId \in Envs :
       GetVariables(header, id, envId)
  \/ \E header \in RestHeaders, id \in ApiProjects, envId \in Envs,
        data \in PostedData :
       PostVariable(header, id, envId, data)
  \/ \E header \in RestHeaders, id \in ApiProjects : GetProject(header, id)
  \/ \E header \in RestHeaders, id \in ApiProjects, restrict \in BOOLEAN :
       DeleteProject(header, id, restrict)
  \/ \E u \in Sessions, environmentId \in Envs, data \in CreatedData :
       ServerCreateVariable(u, environmentId, data)
  \/ \E u \in Sessions, variableId \in 1..MaxApiVars, data \in UpdatedData :
       ServerUpdateVariable(u, variableId, data)
  \/ \E u \in Sessions, variableId \in 1..MaxApiVars :
       ServerDeleteVariable(u, variableId)

SpecOwnership == InitApi /\ [][NextOwnership]_vars

\* the request carries a token that is valid and holds READ only
ReadOnly(header) ==
  /\ AuthenticateApiRequest(header).authorized
  /\ AuthenticateApiRequest(header).permissions = {"READ"}

\* a step of a POST, PUT or DELETE endpoint for the request with this header
WriteRequest(header) ==
  \E id \in ApiProjects :
    \/ \E envId \in Envs, data \in Ciphertexts \cup {MissingFields} :
         PostVariable(header, id, envId, data)
    \/ \E envId \in Envs, submitted \in PutBodies :
         PutBegin(header, id, envId, submitted)
    \/ \E restrict \in BOOLEAN : DeleteProject(header, id, restrict)

\* hasPermission: READ is held with READ or WRITE, WRITE only with WRITE, and
\* an undefined list holds nothing
WriteImpliesRead ==
  /\ \A p \in SUBSET ApiPermissions :
       /\ HasPermission(Defined(p), "READ") <=> ("READ" \in p \/ "WRITE" \in p)
       /\ HasPermission(Defined(p), "WRITE") <=> "WRITE" \in p
  /\ \A required \in ApiPermissions : ~HasPermission(Undefined2, required)

\* the token rows apart from their lastUsedAt stamps
Unstamped(rows) == [i \in DOMAIN rows |-> [rows[i] EXCEPT !.lastUsedAt = NoDate]]

\* C21: WRITE implies READ but not the reverse (hasPermission(p, READ) iff p
\* has READ or WRITE, hasPermission(p, WRITE) iff p has WRITE, an undefined list
\* grants nothing), and a READ-only token is answered 403 by every POST, PUT
\* and DELETE endpoint, which leave every project, environment and variable as
\* it was; the one thing written is the lastUsedAt stamp of the token presented.
C21_ReadOnlyTokenCannotWrite ==
  [][ /\ WriteImpliesRead
      /\ \A header \in RestHeaders :
           (ReadOnly(header) /\ WriteRequest(header)) =>
             /\ apiResp'.status = 403
             /\ UNCHANGED restVars
             /\ Unstamped(tokens') = Unstamped(tokens)
             /\ \A i \in DOMAIN tokens :
                  tokens'[i] # tokens[i] =>
                    tokens[i].tokenHash = HashToken(header.token)
    ]_vars

\* C21 as worded: the refused request changes no state at all.
C21_RefusedWithNoStateChange ==
  [][ /\ WriteImpliesRead
      /\ \A header \in RestHeaders :
           (ReadOnly(header) /\ WriteRequest(header)) =>
             /\ apiResp'.status = 403
             /\ UNCHANGED <<restVars, tokens>>
    ]_vars

\* a READ-only token has just been refused the deletion of a project while
\* both projects exist and the second user's environment holds variables
C21_ReadOnlyDeleteRefused ==
  /\ apiResp.op = "DELETE" /\ apiResp.status = 403
  /\ apiResp.error = "Insufficient permissions"
  /\ projects = ApiProjects
  /\ RowsOf("e2") # {}

OwnedEnv(envId, u) == ProjectUser(EnvProject(envId)) = u

\* the environment of a variable row that the step created, changed or deleted
TouchedEnvs ==
  {(IF apiVars[i] # NoRow THEN apiVars[i] ELSE apiVars'[i]).environmentId :
     i \in {j \in 1..MaxApiVars : apiVars'[j] # apiVars[j]}}

\* the step wrote only to variables and projects of the user
WroteOwnOnly(u) ==
  /\ \A envId \in TouchedEnvs : OwnedEnv(envId, u)
  /\ \A i \in 1..MaxApiVars :
       (apiVars[i] # NoRow /\ apiVars'[i] # NoRow) =>
         apiVars'[i].environmentId = apiVars[i].environmentId
  /\ projects' \subseteq projects
  /\ \A id \in projects \ projects' : ProjectUser(id) = u

\* a refused request left the records alone; strictly, the token rows too
LeftAlone(strictly) ==
  /\ UNCHANGED restVars
  /\ IF strictly THEN UNCHANGED tokens ELSE Unstamped(tokens') = Unstamped(tokens)

\* a REST step reads and writes under the token's user and the project in the path
RestIsolated(header, id, strictly) ==
  LET auth == AuthenticateApiRequest(header) IN
  /\ IF auth.authorized
     THEN /\ WroteOwnOnly(auth.userId)
          /\ \A envId \in TouchedEnvs : EnvProject(envId) = id
          /\ projects \ projects' \subseteq {id}
          /\ apiResp'.body # << >> =>
               \A row \in apiResp'.body[1] :
                 /\ OwnedEnv(row.environmentId, auth.userId)
                 /\ EnvProject(row.environmentId) = id
     ELSE /\ UNCHANGED <<restVars, tokens>>
          /\ apiResp'.body = << >>
  /\ (auth.authorized /\ ProjectUser(id) # auth.userId) =>
       (apiResp'.status \in {403, 400} \/ (apiResp'.status = 404 /\ LeftAlone(strictly)))

\* every step of the endpoints and of the server actions stays within the
\* records of its user, and one that names a record of somebody else is told
\* "not found"
IsolatedStep(strictly) ==
  /\ \A header \in RestHeaders, id \in ApiProjects :
       /\ \A envId \in Envs :
            /\ (apiResp'.op = "GET" /\ GetVariables(header, id, envId)) =>
                 /\ RestIsolated(header, id, strictly)
                 /\ (AuthenticateApiRequest(header).authorized
                     /\ ~EnvironmentFound(id, envId, AuthenticateApiRequest(header).userId))
                      => (apiResp'.status = 404 /\ LeftAlone(strictly))
            /\ \A data \in PostedData :
                 (apiResp'.op = "POST" /\ PostVariable(header, id, envId, data)) =>
                   /\ RestIsolated(header, id, strictly)
                   /\ (/\ AuthenticateApiRequest(header).authorized
                       /\ "WRITE" \in AuthenticateApiRequest(header).permissions
                       /\ data \in Ciphertexts
                       /\ ~EnvironmentFound(id, envId, AuthenticateApiRequest(header).userId))
                        => (apiResp'.status = 404 /\ LeftAlone(strictly))
       /\ (apiResp'.op = "GET project" /\ GetProject(header, id)) =>
            /\ RestIsolated(header, id, strictly)
            /\ (AuthenticateApiRequest(header).authorized /\ apiResp'.status # 200)
                 => (apiResp'.status = 404 /\ LeftAlone(strictly))
       /\ \A restrict \in BOOLEAN :
            (apiResp'.op = "DELETE" /\ DeleteProject(header, id, restrict))
              => RestIsolated(header, id, strictly)
  /\ \A u \in Users :
       /\ \A environmentId \in Envs, data \in CreatedData :
            (apiResp'.op = "createVariable"
             /\ ServerCreateVariable(u, environmentId, data)) =>
              /\ WroteOwnOnly(u)
              /\ ~OwnedEnv(environmentId, u) =>
                   /\ apiResp'.error = "Environment not found"
                   /\ UNCHANGED <<restVars, tokens>>
       /\ \A variableId \in 1..MaxApiVars :
            (/\ apiResp'.op \in {"updateVariable", "deleteVariable"}
             /\ \/ \E data \in UpdatedData : ServerUpdateVariable(u, variableId, data)
                \/ ServerDeleteVariable(u, variableId)) =>
              /\ WroteOwnOnly(u)
              /\ (apiVars[variableId] # NoRow
                  /\ ~OwnedEnv(apiVars[variableId].environmentId, u)) =>
                   /\ apiResp'.error = "Variable not found"
                   /\ UNCHANGED <<restVars, tokens>>
  /\ \A environmentId \in Envs, variableId \in 1..MaxApiVars :
       (/\ apiResp'.error = "Unauthorized"
        /\ \/ \E data \in CreatedData : ServerCreateVariable(NULL, environmentId, data)
           \/ \E data \in UpdatedData : ServerUpdateVariable(NULL, variableId, data)
           \/ ServerDeleteVariable(NULL, variableId)) => UNCHANGED <<restVars, tokens>>

====
